---- MODULE Spec2Model ----
(***************************************************************************)
(* Model of the document pages of legal-malaysia-ai.                       *)
(*                                                                         *)
(*   DocumentAnalyzer   (src/src/pages/DocumentAnalyzer.tsx, lines 1-451)  *)
(*       selectedFiles, isAnalyzing, analysisResults, activeTab and the    *)
(*       handlers handleFilesSelected, handleRemoveFile, handleAnalyzeAll. *)
(*   ExtractionChatbot  (the same file, lines 452-1062)                    *)
(*       uploadedFiles, messages and handleFilesSelected with its          *)
(*       extractTextFromFiles and analyzeDocument, handleRemoveFile,       *)
(*       handleEditFile, handleSaveEditedText.                             *)
(*   MultiFileChatbot   (the same file, lines 1064-1479)                   *)
(*       uploadedFiles, messages, handleFilesSelected, handleRemoveFile,   *)
(*       handleEditFile, handleSaveEditedText.                             *)
(*   SingleFileChatbot  (src/src/pages/Chatbot.tsx)                        *)
(*       uploadedFile, messages and handleFileUpload.                      *)
(*   lib/file           (src/unnamed/part_000)                             *)
(*       readFileAsBase64, isValidFileType.                                *)
(*   The three chatbots' handleSendMessage, with queryKendra and           *)
(*       queryBedrock of the ExtractionChatbot.                            *)
(*   The Lambda handlers (src/unnamed/part_001 and part_002).              *)
(*                                                                         *)
(* One page is mounted at a time.                                          *)
(*                                                                         *)
(* A React handler is a closure over the state of the render it was made   *)
(* in; every setX(prev => ...) is applied to the state current at the time *)
(* of the call.  An async handler is cut at its awaits: one action per     *)
(* stretch of code between two awaits.  Sequences are 1-based here, so     *)
(* index k of the model is index k-1 of the code.                          *)
(***************************************************************************)
EXTENDS Integers, Sequences, FiniteSets, TLC

\* ------------------------------------------------------------------ bounds
MaxFiles == 2
MaxSelect == 2
MaxMessages == 3

\* ------------------------------------------------------- program constants
MAX_FILE_SIZE == 10 * 1024 * 1024

PDF == "application/pdf"
DOCX == "application/vnd.openxmlformats-officedocument.wordprocessingml.document"
DOC == "application/msword"
TXT == "text/plain"
JPEG == "image/jpeg"
PNG == "image/png"
GIF == "image/gif"

validTypes == {PDF, DOCX, DOC, TXT, JPEG, PNG, GIF}

\* A type check whose list lacks the legacy DOC type.
isValidFileTypeWithoutDoc(file) == file.type \in validTypes \ {DOC}

isValidFileType(file) == file.type \in validTypes

\* lib/file's isAllowedDocumentOrImage (imported at line 10), after section 4.1
\* of the specification: its allow-list is the same seven types.
isAllowedDocumentOrImage(file) ==
    file.type \in {PDF, DOCX, DOC, TXT, JPEG, PNG, GIF}

\* ------------------------------------------------------------------- files
\* A File: id is the object's identity, bytes its content (kept short), size
\* its declared length.
File(id, name, type, size, bytes) ==
    [id |-> id, name |-> name, type |-> type, size |-> size, bytes |-> bytes]

Files ==
    { File(1, "a.pdf", PDF, 1024, <<37, 80>>),
      File(2, "a.pdf", PDF, 2048, <<37, 81, 70>>),
      File(3, "b.txt", TXT, MAX_FILE_SIZE, <<72>>),
      File(4, "d.png", PNG, MAX_FILE_SIZE + 1, <<137>>) }

RECURSIVE SeqsOver(_, _)
SeqsOver(S, n) ==
    IF n = 0 THEN {<<>>}
    ELSE LET shorter == SeqsOver(S, n - 1)
         IN  shorter \cup
             {Append(s, x) : s \in {t \in shorter : Len(t) = n - 1}, x \in S}

Range(s) == {s[k] : k \in 1..Len(s)}

\* What a file picker can hand over: a non-empty list of distinct File objects.
Selections(U) ==
    {s \in SeqsOver(U, MaxSelect) :
        Len(s) > 0 /\ \A a, b \in 1..Len(s) : a # b => s[a] # s[b]}

\* ----------------------------------------------------------------- base64
\* btoa's alphabet is modelled by the sextet's number, 64 standing for '='.
Pad == 4 * 16

RECURSIVE Base64(_)
Base64(bytes) ==
    IF Len(bytes) = 0 THEN <<>>
    ELSE IF Len(bytes) = 1 THEN
        << bytes[1] \div 4, (bytes[1] % 4) * 16, Pad, Pad >>
    ELSE IF Len(bytes) = 2 THEN
        << bytes[1] \div 4,
           (bytes[1] % 4) * 16 + bytes[2] \div 16,
           (bytes[2] % 16) * 4,
           Pad >>
    ELSE
        << bytes[1] \div 4,
           (bytes[1] % 4) * 16 + bytes[2] \div 16,
           (bytes[2] % 16) * 4 + bytes[3] \div 64,
           bytes[3] % 64 >>
        \o Base64(SubSeq(bytes, 4, Len(bytes)))

\* readFileAsBase64: the data URL's part after the comma, the file's bytes in
\* base64; it rejects a file over 10 MB without reading it.
readFileAsBase64Rejects(file) == file.size > 10 * 1024 * 1024

readFileAsBase64(file) == Base64(file.bytes)

\* ------------------------------------------------------------ option values
\* An optional value (undefined, null or a value) is a sequence of length 0 or 1.
None == <<>>
Some(x) == <<x>>

\* ------------------------------------------------------------------- texts
\* A JavaScript string is a sequence of UTF-16 code units: 'A', e-acute, the
\* euro sign, and a high and a low surrogate (together U+1F600).
Units == {65, 233, 8364, 55357, 56832}

MaxText == 2

Texts == SeqsOver(Units, MaxText)

IsHigh(unit) == unit \in 55296..56319
IsLow(unit) == unit \in 56320..57343

\* The code points of a string; a surrogate that has no partner stands for
\* itself.
RECURSIVE CodePoints(_)
CodePoints(text) ==
    IF Len(text) = 0 THEN <<>>
    ELSE IF Len(text) > 1 /\ IsHigh(text[1]) /\ IsLow(text[2]) THEN
        << 65536 + (text[1] - 55296) * 1024 + (text[2] - 56320) >>
            \o CodePoints(SubSeq(text, 3, Len(text)))
    ELSE << text[1] >> \o CodePoints(Tail(text))

\* The characters encodeURIComponent leaves as they are: A-Z a-z 0-9 - _ . ! ~ * ' ( )
Unreserved ==
    (65..90) \cup (97..122) \cup (48..57) \cup {45, 95, 46, 33, 126, 42, 39, 40, 41}

UTF8(cp) ==
    IF cp < 128 THEN << cp >>
    ELSE IF cp < 2048 THEN << 192 + (cp \div 64), 128 + (cp % 64) >>
    ELSE IF cp < 65536 THEN
        << 224 + (cp \div 4096), 128 + ((cp \div 64) % 64), 128 + (cp % 64) >>
    ELSE
        << 240 + (cp \div 262144), 128 + ((cp \div 4096) % 64),
           128 + ((cp \div 64) % 64), 128 + (cp % 64) >>

\* encodeURIComponent throws a URIError for a string with a lone surrogate.
encodeURIComponentThrows(text) ==
    \E k \in 1..Len(CodePoints(text)) : CodePoints(text)[k] \in 55296..57343

\* Its result: per character either the character (chr) or the escapes %XX of
\* its UTF-8 bytes (pct).
RECURSIVE Escapes(_)
Escapes(bytes) ==
    IF bytes = <<>> THEN <<>>
    ELSE << [pct |-> Head(bytes)] >> \o Escapes(Tail(bytes))

RECURSIVE EncodePoints(_)
EncodePoints(points) ==
    IF points = <<>> THEN <<>>
    ELSE (IF Head(points) \in Unreserved THEN << [chr |-> Head(points)] >>
          ELSE Escapes(UTF8(Head(points))))
         \o EncodePoints(Tail(points))

encodeURIComponent(text) == EncodePoints(CodePoints(text))

\* unescape: every %XX becomes the character of code XX, the rest is kept.
unescape(escaped) ==
    [k \in 1..Len(escaped) |->
        IF "pct" \in DOMAIN escaped[k] THEN escaped[k].pct ELSE escaped[k].chr]

\* btoa of a string of characters below 256: the base64 of those bytes.
btoa(binary) == Base64(binary)

\* if (x): undefined and the empty string are falsy.
Truthy(option) == option # None /\ option[1] # <<>>

\* ---------------------------------------------------------- remote services
\* What client.queries.extractClauses / assessRisks answer for a content: the
\* lists are a function of the content sent.  For the content of EmptyDoc the
\* services answer with data that holds no list (the `|| []` of lines 175-176).
EmptyDoc == Base64(<<72>>)

ExtractedClauses(content) ==
    IF content = EmptyDoc THEN None
    ELSE Some(<< [title |-> "extracted", snippet |-> "extracted snippet",
                  reason |-> "extracted reason", of |-> content] >>)

AssessedRisks(content) ==
    IF content = EmptyDoc THEN None
    ELSE Some(<< [risk |-> "assessed", severity |-> "high",
                  explanation |-> "assessed explanation",
                  recommendedAction |-> "assessed action", of |-> content] >>)

\* The predefined fallback values of handleAnalyzeAll.
FallbackClauses ==
    << [title |-> "Payment Terms",
        snippet |-> "Payment shall be made within 30 days of invoice date...",
        reason |-> "Standard commercial payment clause", of |-> <<>>],
       [title |-> "Liability Limitation",
        snippet |-> "In no event shall either party be liable for indirect damages...",
        reason |-> "Limits potential liability exposure", of |-> <<>>],
       [title |-> "Termination Clause",
        snippet |-> "Either party may terminate with 30 days written notice...",
        reason |-> "Provides exit mechanism for both parties", of |-> <<>>] >>

FallbackRisks ==
    << [risk |-> "Broad liability limitation", severity |-> "medium",
        explanation |-> "The liability clause may be too broad and could leave you unprotected",
        recommendedAction |-> "Consider adding exceptions for gross negligence",
        of |-> <<>>],
       [risk |-> "Automatic renewal clause", severity |-> "high",
        explanation |-> "Contract automatically renews without explicit consent",
        recommendedAction |-> "Negotiate for explicit renewal approval requirement",
        of |-> <<>>],
       [risk |-> "Unclear dispute resolution", severity |-> "low",
        explanation |-> "Dispute resolution mechanism is not clearly defined",
        recommendedAction |-> "Add specific arbitration or mediation clause",
        of |-> <<>>] >>

\* How a remote call can settle: with data ("data"), without data ("nodata"),
\* or by failing ("fail": the promise rejects or the call throws).
CallOutcomes == {"data", "nodata", "fail"}

ClausesResponse(outcome, content) ==
    CASE outcome = "data"   -> [throws |-> FALSE,
                                data |-> Some([clauses |-> ExtractedClauses(content)])]
      [] outcome = "nodata" -> [throws |-> FALSE, data |-> None]
      [] OTHER              -> [throws |-> TRUE, data |-> None]

RisksResponse(outcome, content) ==
    CASE outcome = "data"   -> [throws |-> FALSE,
                                data |-> Some([risks |-> AssessedRisks(content)])]
      [] outcome = "nodata" -> [throws |-> FALSE, data |-> None]
      [] OTHER              -> [throws |-> TRUE, data |-> None]

\* lib/amplify-client's safeApiCall (imported at line 8), after section 4.4 of
\* the specification: "if the remote call fails or throws, substitute a
\* predefined fallback value for that operation only"; a call that settles is
\* handed on as it is.
safeApiCall(response, fallbackData) ==
    IF response.throws THEN [data |-> Some(fallbackData)]
    ELSE [data |-> response.data]

\* lib/file's readFilesAsBase64 (imported at line 10), after section 2 of the
\* specification: the ContentEncoder applied to each file, readFileAsBase64 above.
readFilesAsBase64(files) ==
    [k \in 1..Len(files) |-> [base64 |-> readFileAsBase64(files[k])]]

\* ------------------------------------------------------------------- state
VARIABLES
    page,               \* the page that is mounted
    selection,          \* the files handed to the intake handler by the last step
    selectedFiles,      \* DocumentAnalyzer: the records, [file, status]
    isAnalyzing,        \* DocumentAnalyzer: a run of handleAnalyzeAll is active
    analysisResults,    \* DocumentAnalyzer: file name -> stored result
    activeTab,          \* DocumentAnalyzer: the file name of the tab shown, "" for none
    toasts,             \* the notifications the last step raised, <<title, file name>>
    summary,            \* DocumentAnalyzer: the last summary copied or downloaded
    extraction,         \* extractText: a call, [file, options, native, ocr, result]
    editingFile,        \* chatbots: None or Some([file, text]), the document being edited
    second,             \* multi-file chatbot: None, or Some(the state of a second run of handleFilesSelected)
    send,               \* chatbots: inputValue, isLoading and where
                        \*   handleSendMessage stands
    invocation,         \* Lambda: None, or Some(the handler invoked, its event, and
                        \*   its response once it has returned or thrown)
    pc,                 \* handleAnalyzeAll: "idle", "reading" or "calling"
    captured,           \* handleAnalyzeAll: the files of the selectedFiles its closure holds
    i,                  \* handleAnalyzeAll: the loop index (1-based, 0 when idle)
    results,            \* handleAnalyzeAll: the local results object
    base64,             \* handleAnalyzeAll: the content read for file i
    clausesCall,        \* handleAnalyzeAll: "none", "pending" or a CallOutcome
    risksCall,          \* handleAnalyzeAll: "none", "pending" or a CallOutcome
    uploadedFiles,      \* chatbots: the records, [file, status, editedText, extractedText,
                        \*   extractionResult, progress]
    messages,           \* chatbots: the conversation
    uploadedFile,       \* single-file chatbot: None or Some([name, size, status])
    hpc,                \* chatbots: where the intake handler stands, "idle" when none runs
    closure,            \* chatbots: the uploadedFiles the running handler's closure holds
    validFiles,         \* chatbots: the running handler's validFiles
    startIndex,         \* chatbots: the list's length in the handler's closure
    hi,                 \* chatbots: the handler's loop index (1-based, 0 when idle)
    fileIndex,          \* chatbots: the fileIndex of the iteration (1-based, 0 when idle)
    delivered,          \* extraction chatbot: the last progress the pending extractText
                        \*   call has reported, None before the first
    extractedTextArg,   \* extraction chatbot: analyzeDocument's extractedText argument
    contentToAnalyze,   \* chatbots: the content resolved for the record
    request             \* chatbots: the last request made to analyzeDocument

analyzerVars ==
    << selectedFiles, isAnalyzing, analysisResults, activeTab, pc, captured,
       i, results, base64, clausesCall, risksCall >>

chatVars ==
    << uploadedFiles, messages, uploadedFile, hpc, closure, validFiles,
       startIndex, hi,
       fileIndex, delivered, extractedTextArg, contentToAnalyze, request >>

vars ==
    << page, selection, analyzerVars, chatVars, toasts, summary, extraction,
       editingFile, second, send, invocation >>

Pages ==
    { "DocumentAnalyzer",       \* src/pages/DocumentAnalyzer.tsx, lines 1-451
      "ExtractionChatbot",      \* the Chatbot with text extraction, lines 452-1062
      "MultiFileChatbot",       \* the Chatbot without it, lines 1064-1479
      "SingleFileChatbot" }     \* src/pages/Chatbot.tsx

EmptyMap == [n \in {} |-> None]

\* A map that keeps the first value stored under a key.
PutIfAbsent(map, key, value) ==
    [n \in DOMAIN map \cup {key} |-> IF n \in DOMAIN map THEN map[n] ELSE value]

Put(map, key, value) ==
    [n \in DOMAIN map \cup {key} |-> IF n = key THEN value ELSE map[n]]

Delete(map, key) == [n \in DOMAIN map \ {key} |-> map[n]]

\* prev.map((sf, idx) => idx === index ? { ...sf, status } : sf)
SetStatus(list, index, status) ==
    [k \in 1..Len(list) |->
        IF k = index THEN [list[k] EXCEPT !.status = status] ELSE list[k]]

\* prev.filter((_, i) => i !== index)
RemoveAt(list, index) ==
    [k \in 1..(Len(list) - (IF index \in 1..Len(list) THEN 1 ELSE 0)) |->
        IF k < index THEN list[k] ELSE list[k + 1]]

\* The greeting every chatbot starts its conversation with.
Greeting == [type |-> "assistant", about |-> "", content |-> "greeting"]

\* The message box of a chatbot that has just been mounted: useState('') and
\* useState(false), and no handleSendMessage under way.
NoMessage ==
    [inputValue |-> <<>>, isLoading |-> FALSE, pc |-> "idle",
     question |-> <<>>, snippets |-> <<>>]

\* The state of a DocumentAnalyzer that has just been mounted.
MountedAnalyzer ==
    /\ selectedFiles = <<>>
    /\ isAnalyzing = FALSE
    /\ analysisResults = EmptyMap
    /\ activeTab = ""
    /\ toasts = {}
    /\ summary = None
    /\ extraction = None
    /\ editingFile = None
    /\ second = None
    /\ send = NoMessage
    /\ invocation = None
    /\ pc = "idle"
    /\ captured = <<>>
    /\ i = 0
    /\ results = EmptyMap
    /\ base64 = <<>>
    /\ clausesCall = "none"
    /\ risksCall = "none"

\* The state of a page that has just been mounted.
Mounted ==
    /\ MountedAnalyzer
    /\ selection = <<>>
    /\ uploadedFiles = <<>>
    /\ messages = << Greeting >>
    /\ uploadedFile = None
    /\ hpc = "idle"
    /\ closure = <<>>
    /\ validFiles = <<>>
    /\ startIndex = 0
    /\ hi = 0
    /\ fileIndex = 0
    /\ delivered = None
    /\ extractedTextArg = None
    /\ contentToAnalyze = None
    /\ request = None

Init ==
    /\ page \in Pages
    /\ Mounted

\* What a step of the DocumentAnalyzer leaves alone.
AnalyzerStep ==
    /\ selection' = <<>>
    /\ UNCHANGED << page, chatVars, summary, extraction, editingFile, second, send,
                    invocation >>

\* What a step of handleAnalyzeAll leaves alone.
AnalyzeAllStep ==
    /\ AnalyzerStep
    /\ UNCHANGED activeTab

\* ------------------------------------------------- handleFilesSelected
\* A validation loop that a rejection ends (break for continue).
RECURSIVE ScreenFilesBreaking(_, _, _)
ScreenFilesBreaking(files, valid, raised) ==
    IF files = <<>> THEN [validFiles |-> valid, toasts |-> raised]
    ELSE LET file == Head(files)
         IN  IF ~isAllowedDocumentOrImage(file) THEN
                 [validFiles |-> valid,
                  toasts |-> raised \cup {<<"Invalid file type", file.name>>}]
             ELSE IF file.size > MAX_FILE_SIZE THEN
                 [validFiles |-> valid,
                  toasts |-> raised \cup {<<"File too large", file.name>>}]
             ELSE
                 ScreenFilesBreaking(Tail(files), Append(valid, file), raised)

\* The validation loop: validFiles and the toasts it raises, file by file.
RECURSIVE ScreenFiles(_, _, _)
ScreenFiles(files, valid, raised) ==
    IF files = <<>> THEN [validFiles |-> valid, toasts |-> raised]
    ELSE LET file == Head(files)
         IN  IF ~isAllowedDocumentOrImage(file) THEN
                 ScreenFiles(Tail(files), valid,
                             raised \cup {<<"Invalid file type", file.name>>})
             ELSE IF file.size > MAX_FILE_SIZE THEN
                 ScreenFiles(Tail(files), valid,
                             raised \cup {<<"File too large", file.name>>})
             ELSE
                 ScreenFiles(Tail(files), Append(valid, file), raised)

\* validFiles.map(file => ({ file, status: 'idle' }))
NewRecords(valid) ==
    [k \in 1..Len(valid) |-> [file |-> valid[k], status |-> "idle"]]

InList(list, file) == \E k \in 1..Len(list) : list[k].file.id = file.id

\* handleFilesSelected behind a picker that stays enabled during a run.
HandleFilesSelectedDuringRun(files) ==
    /\ page = "DocumentAnalyzer"
    /\ \A k \in 1..Len(files) : ~InList(selectedFiles, files[k])
    /\ LET screened == ScreenFiles(files, <<>>, {})
       IN  /\ Len(selectedFiles) + Len(screened.validFiles) <= MaxFiles
           /\ toasts' = screened.toasts
           /\ selectedFiles' =
                 IF Len(screened.validFiles) = 0 THEN selectedFiles
                 ELSE selectedFiles \o NewRecords(screened.validFiles)
           /\ activeTab' =
                 IF Len(screened.validFiles) > 0 /\ activeTab = ""
                 THEN screened.validFiles[1].name
                 ELSE activeTab
    /\ selection' = files
    /\ UNCHANGED << isAnalyzing, analysisResults, pc, captured, i, results,
                    base64, clausesCall, risksCall, page, chatVars, summary,
                    extraction, editingFile, second, send,
                    invocation >>

\* The UploadPicker is disabled while isAnalyzing.
HandleFilesSelected(files) ==
    /\ page = "DocumentAnalyzer"
    /\ ~isAnalyzing
    /\ \A k \in 1..Len(files) : ~InList(selectedFiles, files[k])
    /\ LET screened == ScreenFiles(files, <<>>, {})
       IN  /\ Len(selectedFiles) + Len(screened.validFiles) <= MaxFiles
           /\ toasts' = screened.toasts
           /\ selectedFiles' =
                 IF Len(screened.validFiles) = 0 THEN selectedFiles
                 ELSE selectedFiles \o NewRecords(screened.validFiles)
           /\ activeTab' =
                 IF Len(screened.validFiles) > 0 /\ activeTab = ""
                 THEN screened.validFiles[1].name
                 ELSE activeTab
    /\ selection' = files
    /\ UNCHANGED << isAnalyzing, analysisResults, pc, captured, i, results,
                    base64, clausesCall, risksCall, page, chatVars, summary,
                    extraction, editingFile, second, send,
                    invocation >>

\* ---------------------------------------------------- handleRemoveFile
\* The handler of the last render: selectedFiles[index] is the current record.
HandleRemoveFile(index) ==
    /\ page = "DocumentAnalyzer"
    /\ AnalyzerStep
    /\ index \in 1..Len(selectedFiles)
    /\ LET removedFile == selectedFiles[index]
       IN  /\ selectedFiles' = RemoveAt(selectedFiles, index)
           /\ analysisResults' = Delete(analysisResults, removedFile.file.name)
           /\ activeTab' =
                 IF activeTab = removedFile.file.name
                 THEN LET remainingFiles == RemoveAt(selectedFiles, index)
                      IN  IF Len(remainingFiles) > 0
                          THEN remainingFiles[1].file.name
                          ELSE ""
                 ELSE activeTab
    /\ toasts' = {}
    /\ UNCHANGED << isAnalyzing, pc, captured, i, results, base64,
                    clausesCall, risksCall >>

\* The user picks one of the result tabs (onValueChange={setActiveTab}).
SelectTab(fileName) ==
    /\ page = "DocumentAnalyzer"
    /\ AnalyzerStep
    /\ fileName \in DOMAIN analysisResults
    /\ fileName # activeTab
    /\ activeTab' = fileName
    /\ toasts' = {}
    /\ UNCHANGED << selectedFiles, isAnalyzing, analysisResults, pc, captured,
                    i, results, base64, clausesCall, risksCall >>

\* ---------------------------------------------------- handleAnalyzeAll
\* The end of one loop iteration, with `list`, `res` and `raised` what the
\* iteration made of selectedFiles, results and the toasts: either the next
\* iteration up to its await of readFilesAsBase64, or the code after the loop.
Continue(list, res, raised) ==
    /\ AnalyzeAllStep
    /\ IF i < Len(captured) THEN
           /\ selectedFiles' = SetStatus(list, i + 1, "uploading")
           /\ i' = i + 1
           /\ pc' = "reading"
           /\ results' = res
           /\ toasts' = raised
           /\ base64' = <<>>
           /\ clausesCall' = "none"
           /\ risksCall' = "none"
           /\ UNCHANGED << isAnalyzing, analysisResults, captured >>
       ELSE
           /\ selectedFiles' = list
           /\ analysisResults' = res
           /\ toasts' = raised \cup
                 (IF Cardinality(DOMAIN res) > 0
                  THEN {<<"Analysis completed", "">>} ELSE {})
           /\ isAnalyzing' = FALSE
           /\ pc' = "idle"
           /\ captured' = <<>>
           /\ i' = 0
           /\ results' = EmptyMap
           /\ base64' = <<>>
           /\ clausesCall' = "none"
           /\ risksCall' = "none"

\* The Analyze All button is rendered for a non-empty list and disabled while
\* isAnalyzing.  The handler runs up to the first await.
HandleAnalyzeAll ==
    /\ page = "DocumentAnalyzer"
    /\ AnalyzeAllStep
    /\ ~isAnalyzing
    /\ pc = "idle"
    /\ Len(selectedFiles) # 0
    /\ isAnalyzing' = TRUE
    /\ results' = EmptyMap
    /\ captured' = [k \in 1..Len(selectedFiles) |-> selectedFiles[k].file]
    /\ i' = 1
    /\ selectedFiles' = SetStatus(selectedFiles, 1, "uploading")
    /\ pc' = "reading"
    /\ toasts' = {}
    /\ UNCHANGED << analysisResults, base64, clausesCall, risksCall >>

\* readFilesAsBase64([file]) resolves: both remote calls are started.
ReadResolves ==
    /\ AnalyzeAllStep
    /\ pc = "reading"
    /\ ~readFileAsBase64Rejects(captured[i])
    /\ base64' = readFilesAsBase64(<< captured[i] >>)[1].base64
    /\ clausesCall' = "pending"
    /\ risksCall' = "pending"
    /\ pc' = "calling"
    /\ toasts' = {}
    /\ UNCHANGED << selectedFiles, isAnalyzing, analysisResults, captured, i,
                    results >>

\* A catch block that hands the error on: the exception leaves the loop, the
\* finally block resets isAnalyzing and the results map is not written.
CatchErrorEscapes ==
    /\ AnalyzeAllStep
    /\ isAnalyzing' = FALSE
    /\ pc' = "idle"
    /\ captured' = <<>>
    /\ i' = 0
    /\ results' = EmptyMap
    /\ base64' = <<>>
    /\ clausesCall' = "none"
    /\ risksCall' = "none"
    /\ toasts' = {}
    /\ UNCHANGED << selectedFiles, analysisResults >>

\* The catch block of the iteration.
CatchError ==
    Continue(SetStatus(selectedFiles, i, "error"), results,
             {<<"Analysis failed", captured[i].name>>})

\* readFilesAsBase64([file]) rejects (the reader fails, or the file is too large).
ReadRejects ==
    /\ pc = "reading"
    /\ CatchError

ClausesSettle(outcome) ==
    /\ AnalyzeAllStep
    /\ pc = "calling"
    /\ clausesCall = "pending"
    /\ clausesCall' = outcome
    /\ toasts' = {}
    /\ UNCHANGED << selectedFiles, isAnalyzing, analysisResults, pc, captured,
                    i, results, base64, risksCall >>

RisksSettle(outcome) ==
    /\ AnalyzeAllStep
    /\ pc = "calling"
    /\ risksCall = "pending"
    /\ risksCall' = outcome
    /\ toasts' = {}
    /\ UNCHANGED << selectedFiles, isAnalyzing, analysisResults, pc, captured,
                    i, results, base64, clausesCall >>

\* A join that resolves as soon as one of the two promises has.
AnySettled(clauses, risks) ==
    {clauses, risks} \cap {"none", "pending"} # {clauses, risks}

\* Promise.all resolves when both promises have.
AllSettled(clauses, risks) ==
    {clauses, risks} \cap {"none", "pending"} = {}

\* x || []
OrEmpty(list) == IF list = None THEN <<>> ELSE list[1]

\* The stored result, lines 174-177.
MergedResult(clausesData, risksData) ==
    [clauses |-> OrEmpty(clausesData.clauses), risks |-> OrEmpty(risksData.risks)]

\* The code after await Promise.all, to the end of the iteration.
AfterAll ==
    /\ pc = "calling"
    /\ AllSettled(clausesCall, risksCall)
    /\ LET clausesResult ==
               safeApiCall(ClausesResponse(clausesCall, base64),
                           [clauses |-> Some(FallbackClauses)])
           risksResult ==
               safeApiCall(RisksResponse(risksCall, base64),
                           [risks |-> Some(FallbackRisks)])
           file == captured[i]
       IN  IF clausesResult.data # None /\ risksResult.data # None THEN
               Continue(SetStatus(selectedFiles, i, "done"),
                        Put(results, file.name,
                            MergedResult(clausesResult.data[1], risksResult.data[1])),
                        {})
           ELSE
               Continue(selectedFiles, results, {})

\* ===================================================== the chatbots' service
\* What client.queries.analyzeDocument answers for a request; for the content
\* of EmptyDoc the data holds neither summary nor key points.
AnalysisData(sent) ==
    IF sent = EmptyDoc THEN [summary |-> None, keyPoints |-> None]
    ELSE [summary |-> Some("summary"), keyPoints |-> Some(<< "point" >>)]

AnalysisResponse(outcome, sent) ==
    CASE outcome = "data"   -> [throws |-> FALSE, data |-> Some(AnalysisData(sent))]
      [] outcome = "nodata" -> [throws |-> FALSE, data |-> None]
      [] OTHER              -> [throws |-> TRUE, data |-> None]

\* The fallback value the chatbots hand to safeApiCall.
FallbackAnalysis ==
    [summary |-> Some("fallback summary"),
     keyPoints |-> Some(<< "Payment terms", "Liability limitations",
                           "Termination clause", "Malaysian law jurisdiction" >>)]

\* The assistant message made of an analysis: data.summary || ..., and
\* data.keyPoints?.map(...).join('\n') || ...
analysisMessage(file, data) ==
    [type |-> "assistant",
     about |-> file.name,
     content |->
        << IF data.summary = None THEN "Analysis completed successfully."
           ELSE data.summary[1],
           IF data.keyPoints = None THEN << "No key points extracted" >>
           ELSE data.keyPoints[1] >>]

\* validFiles.map(file => ({ file, status: "idle" })): the optional fields of
\* an UploadedFile are absent.
NewUploadedFiles(valid) ==
    [k \in 1..Len(valid) |->
        [file |-> valid[k], status |-> "idle", editedText |-> None,
         extractedText |-> None, extractionResult |-> None,
         progress |-> None]]

\* What a step of a chatbot leaves alone.
ChatStep ==
    UNCHANGED << page, selectedFiles, isAnalyzing, analysisResults, activeTab,
                 pc, captured, i, results, base64, clausesCall, risksCall,
                 summary, extraction, editingFile, second, send,
                    invocation >>

\* The handler has returned.
HandlerReturns ==
    /\ hpc' = "idle"
    /\ closure' = <<>>
    /\ validFiles' = <<>>
    /\ startIndex' = 0
    /\ hi' = 0
    /\ fileIndex' = 0
    /\ delivered' = None
    /\ extractedTextArg' = None
    /\ contentToAnalyze' = None

\* ======================================================= ExtractionChatbot
\* extractTextFromFiles: iteration k (1-based) up to its await of extractText,
\* with `list`, `msgs` and `raised` what the handler made of uploadedFiles, the
\* messages and the toasts so far.
ExtractIteration(list, msgs, raised, start, valid, k) ==
    /\ uploadedFiles' =
          [n \in 1..Len(list) |->
              IF n = start + k
              THEN [list[n] EXCEPT !.status = "extracting", !.progress = Some(0)]
              ELSE list[n]]
    /\ messages' = msgs
    /\ toasts' = raised
    /\ hpc' = "extracting"
    /\ validFiles' = valid
    /\ startIndex' = start
    /\ hi' = k
    /\ fileIndex' = start + k
    /\ delivered' = None
    /\ extractedTextArg' = None
    /\ contentToAnalyze' = None

\* The end of an iteration of extractTextFromFiles: the next one, or the return.
ExtractNext(list, msgs, raised) ==
    /\ selection' = <<>>
    /\ ChatStep
    /\ UNCHANGED << uploadedFile, request >>
    /\ IF hi < Len(validFiles) THEN
           /\ ExtractIteration(list, msgs, raised, startIndex, validFiles, hi + 1)
           /\ UNCHANGED closure
       ELSE
           /\ uploadedFiles' = list
           /\ messages' = msgs
           /\ toasts' = raised
           /\ HandlerReturns

\* handleFilesSelected, lines 626-664, to the first await of the extraction
\* pass it starts.  One run of the handler at a time.
Extraction_handleFilesSelected(files) ==
    /\ page = "ExtractionChatbot"
    /\ hpc = "idle"
    /\ \A k \in 1..Len(files) : ~InList(uploadedFiles, files[k])
    /\ selection' = files
    /\ ChatStep
    /\ UNCHANGED << uploadedFile, request >>
    /\ LET screened == ScreenFiles(files, <<>>, {})
       IN  /\ Len(uploadedFiles) + Len(screened.validFiles) <= MaxFiles
           /\ IF Len(screened.validFiles) = 0 THEN
                  /\ toasts' = screened.toasts
                  /\ UNCHANGED << uploadedFiles, messages, hpc, closure,
                                  validFiles, startIndex, hi, fileIndex, delivered,
                                  extractedTextArg, contentToAnalyze >>
              ELSE
                  /\ closure' = uploadedFiles
                  /\ ExtractIteration(
                         uploadedFiles \o NewUploadedFiles(screened.validFiles),
                         messages, screened.toasts, Len(uploadedFiles),
                         screened.validFiles, 1)

\* handleRemoveFile, lines 827-829.
Extraction_handleRemoveFile(index) ==
    /\ page = "ExtractionChatbot"
    /\ index \in 1..Len(uploadedFiles)
    /\ uploadedFiles' = RemoveAt(uploadedFiles, index)
    /\ toasts' = {}
    /\ selection' = <<>>
    /\ ChatStep
    /\ UNCHANGED << messages, uploadedFile, hpc, closure, validFiles,
                    startIndex, hi, fileIndex, delivered, extractedTextArg,
                    contentToAnalyze, request >>

\* The catch block of analyzeDocument, lines 805-824; the extraction pass
\* that awaited analyzeDocument goes on.
AnalyzeCatch(list, raised) ==
    ExtractNext(SetStatus(list, fileIndex, "error"), messages,
                raised \cup {<<"Analysis failed", closure[fileIndex].file.name>>})

\* The request of lines 761-776 is made: fileBase64 is always the field sent.
AnalyzeCall(list, raised, base64Content) ==
    /\ uploadedFiles' = list
    /\ toasts' = raised
    /\ contentToAnalyze' = Some(base64Content)
    /\ request' = Some([fileName |-> closure[fileIndex].file.name,
                        fileBase64 |-> base64Content])
    /\ hpc' = "analyzeCalling"
    /\ selection' = <<>>
    /\ ChatStep
    /\ UNCHANGED << messages, uploadedFile, closure, validFiles, startIndex,
                    hi, fileIndex, delivered, extractedTextArg >>

\* btoa(unescape(encodeURIComponent(text))), then the request; a URIError
\* lands in the catch block.
AnalyzeText(list, raised, text) ==
    IF encodeURIComponentThrows(text) THEN AnalyzeCatch(list, raised)
    ELSE AnalyzeCall(list, raised, btoa(unescape(encodeURIComponent(text))))

\* An analyzeDocument that looks at the extracted text before the edited one.
analyzeDocumentExtractedFirst(list, raised, extractedText) ==
    IF fileIndex \notin 1..Len(closure) THEN ExtractNext(list, messages, raised)
    ELSE LET uploadedFile_ == closure[fileIndex]
             marked == SetStatus(list, fileIndex, "uploading")
         IN  IF Truthy(extractedText) THEN
                 AnalyzeText(marked, raised, extractedText[1])
             ELSE IF Truthy(uploadedFile_.editedText) THEN
                 AnalyzeText(marked, raised, uploadedFile_.editedText[1])
             ELSE
                 /\ uploadedFiles' = marked
                 /\ toasts' = raised
                 /\ hpc' = "analyzeReading"
                 /\ selection' = <<>>
                 /\ ChatStep
                 /\ UNCHANGED << messages, uploadedFile, closure, validFiles,
                                 startIndex, hi, fileIndex, delivered, extractedTextArg,
                                 contentToAnalyze, request >>

\* analyzeDocument(fileIndex, extractedText), lines 725-758, to its first
\* await: uploadedFiles[fileIndex] is read from the handler's closure.
analyzeDocument(list, raised, extractedText) ==
    IF fileIndex \notin 1..Len(closure) THEN ExtractNext(list, messages, raised)
    ELSE LET uploadedFile_ == closure[fileIndex]
             marked == SetStatus(list, fileIndex, "uploading")
         IN  IF Truthy(uploadedFile_.editedText) THEN
                 AnalyzeText(marked, raised, uploadedFile_.editedText[1])
             ELSE IF Truthy(extractedText) THEN
                 AnalyzeText(marked, raised, extractedText[1])
             ELSE
                 /\ uploadedFiles' = marked
                 /\ toasts' = raised
                 /\ hpc' = "analyzeReading"
                 /\ selection' = <<>>
                 /\ ChatStep
                 /\ UNCHANGED << messages, uploadedFile, closure, validFiles,
                                 startIndex, hi, fileIndex, delivered, extractedTextArg,
                                 contentToAnalyze, request >>

\* services/textExtractor's extractText, after section 4.2 of the
\* specification: it resolves with a text, empty or not, or rejects.
ExtractedTexts == {<<>>, <<65>>}

\* The UnifiedExtractionResult extractText resolves with, kept to its text.
ExtractionResultOf(text) == [text |-> text]

\* An update that leaves the progress to a later one.
ExtractedWithoutProgress(record, text) ==
    [record EXCEPT !.status = "idle",
                   !.extractedText = Some(text),
                   !.extractionResult = Some(ExtractionResultOf(text))]

\* The record after the update of lines 689-697.
Extracted(record, text) ==
    [record EXCEPT !.status = "idle",
                   !.extractedText = Some(text),
                   !.extractionResult = Some(ExtractionResultOf(text)),
                   !.progress = Some(100)]

\* extractText resolves, lines 688-705: the record gets the text and
\* analyzeDocument is called with it.
ExtractResolves(text) ==
    /\ hpc = "extracting"
    /\ analyzeDocument(
           [n \in 1..Len(uploadedFiles) |->
               IF n = fileIndex THEN Extracted(uploadedFiles[n], text)
               ELSE uploadedFiles[n]],
           {<<"Text extracted successfully", validFiles[hi].name>>},
           Some(text))

\* A catch block that ends the pass: the files after the failed one are left.
ExtractRejectsAndStops ==
    /\ hpc = "extracting"
    /\ uploadedFiles' =
          [n \in 1..Len(uploadedFiles) |->
              IF n = fileIndex
              THEN [uploadedFiles[n] EXCEPT !.status = "error",
                                            !.progress = Some(0)]
              ELSE uploadedFiles[n]]
    /\ toasts' = {<<"Text extraction failed", validFiles[hi].name>>}
    /\ HandlerReturns
    /\ selection' = <<>>
    /\ ChatStep
    /\ UNCHANGED << messages, uploadedFile, request >>

\* extractText rejects, lines 707-721.
ExtractRejects ==
    /\ hpc = "extracting"
    /\ ExtractNext(
           [n \in 1..Len(uploadedFiles) |->
               IF n = fileIndex
               THEN [uploadedFiles[n] EXCEPT !.status = "error",
                                             !.progress = Some(0)]
               ELSE uploadedFiles[n]],
           messages,
           {<<"Text extraction failed", validFiles[hi].name>>})

\* analyzeDocument is entered for a record its closure holds.
AnalyzeDocumentCalled ==
    /\ hpc = "analyze"
    /\ analyzeDocument(uploadedFiles, {}, extractedTextArg)

\* readFilesAsBase64([uploadedFile.file]) resolves, lines 756-757.
AnalyzeReadResolves ==
    /\ hpc = "analyzeReading"
    /\ ~readFileAsBase64Rejects(closure[fileIndex].file)
    /\ AnalyzeCall(uploadedFiles, {},
                   readFilesAsBase64(<< closure[fileIndex].file >>)[1].base64)

AnalyzeReadRejects ==
    /\ hpc = "analyzeReading"
    /\ AnalyzeCatch(uploadedFiles, {})

\* safeApiCall settles, lines 778-804.
AnalyzeCallSettles(outcome) ==
    /\ hpc = "analyzeCalling"
    /\ LET result == safeApiCall(AnalysisResponse(outcome, contentToAnalyze[1]),
                                 FallbackAnalysis)
       IN  IF result.data # None THEN
               ExtractNext(SetStatus(uploadedFiles, fileIndex, "done"),
                           Append(messages,
                                  analysisMessage(closure[fileIndex].file,
                                                  result.data[1])),
                           {})
           ELSE
               ExtractNext(uploadedFiles, messages, {})

\* ======================================================== MultiFileChatbot
\* The loop of handleFilesSelected, lines 1199-1242: iteration k (1-based) to
\* its first await.  currentUploadedFile is looked up in the closure's
\* uploadedFiles; its editedText, when there is one, is sent as `text`.
MultiIteration(list, msgs, raised, start, valid, shut, k) ==
    LET index == start + k
        file == valid[k]
        found == index \in 1..Len(shut)
        edited == found /\ Truthy(shut[index].editedText)
    IN  /\ uploadedFiles' = SetStatus(list, index, "uploading")
        /\ messages' = msgs
        /\ toasts' = raised
        /\ validFiles' = valid
        /\ startIndex' = start
        /\ hi' = k
        /\ fileIndex' = index
        /\ delivered' = None
        /\ extractedTextArg' = None
        /\ IF edited THEN
               /\ contentToAnalyze' = Some(shut[index].editedText[1])
               /\ request' = Some([fileName |-> file.name,
                                   text |-> shut[index].editedText[1]])
               /\ hpc' = "calling"
           ELSE
               /\ contentToAnalyze' = None
               /\ hpc' = "reading"
               /\ UNCHANGED request

\* The end of an iteration: the next one, or the return.
MultiNext(list, msgs, raised) ==
    /\ selection' = <<>>
    /\ ChatStep
    /\ UNCHANGED uploadedFile
    /\ IF hi < Len(validFiles) THEN
           /\ MultiIteration(list, msgs, raised, startIndex, validFiles,
                             closure, hi + 1)
           /\ UNCHANGED closure
       ELSE
           /\ uploadedFiles' = list
           /\ messages' = msgs
           /\ toasts' = raised
           /\ HandlerReturns
           /\ UNCHANGED request

\* handleFilesSelected, lines 1162-1275, to its first await.  One run of the
\* handler at a time.
Multi_handleFilesSelected(files) ==
    /\ page = "MultiFileChatbot"
    /\ hpc = "idle"
    /\ \A k \in 1..Len(files) : ~InList(uploadedFiles, files[k])
    /\ selection' = files
    /\ ChatStep
    /\ UNCHANGED uploadedFile
    /\ LET screened == ScreenFiles(files, <<>>, {})
       IN  /\ Len(uploadedFiles) + Len(screened.validFiles) <= MaxFiles
           /\ Len(messages) + Len(screened.validFiles) <= MaxMessages
           /\ IF Len(screened.validFiles) = 0 THEN
                  /\ toasts' = screened.toasts
                  /\ UNCHANGED << uploadedFiles, messages, hpc, closure,
                                  validFiles, startIndex, hi, fileIndex, delivered,
                                  extractedTextArg, contentToAnalyze, request >>
              ELSE
                  /\ closure' = uploadedFiles
                  /\ MultiIteration(
                         uploadedFiles \o NewUploadedFiles(screened.validFiles),
                         messages, screened.toasts, Len(uploadedFiles),
                         screened.validFiles, uploadedFiles, 1)

\* handleRemoveFile, lines 1277-1279.
Multi_handleRemoveFile(index) ==
    /\ page = "MultiFileChatbot"
    /\ index \in 1..Len(uploadedFiles)
    /\ uploadedFiles' = RemoveAt(uploadedFiles, index)
    /\ toasts' = {}
    /\ selection' = <<>>
    /\ ChatStep
    /\ UNCHANGED << messages, uploadedFile, hpc, closure, validFiles,
                    startIndex, hi, fileIndex, delivered, extractedTextArg,
                    contentToAnalyze, request >>

\* readFilesAsBase64([file]) resolves, lines 1218-1219, and the request is made.
MultiReadResolves ==
    /\ hpc = "reading"
    /\ ~readFileAsBase64Rejects(validFiles[hi])
    /\ LET read == readFilesAsBase64(<< validFiles[hi] >>)[1].base64
       IN  /\ contentToAnalyze' = Some(read)
           /\ request' = Some([fileName |-> validFiles[hi].name,
                               fileBase64 |-> read])
    /\ hpc' = "calling"
    /\ toasts' = {}
    /\ selection' = <<>>
    /\ ChatStep
    /\ UNCHANGED << uploadedFiles, messages, uploadedFile, closure, validFiles,
                    startIndex, hi, fileIndex, delivered, extractedTextArg >>

\* The catch block, lines 1260-1273.
MultiReadRejects ==
    /\ hpc = "reading"
    /\ MultiNext(SetStatus(uploadedFiles, fileIndex, "error"), messages,
                 {<<"Analysis failed", validFiles[hi].name>>})

\* safeApiCall settles, lines 1244-1259.
MultiCallSettles(outcome) ==
    /\ hpc = "calling"
    /\ LET result == safeApiCall(AnalysisResponse(outcome, contentToAnalyze[1]),
                                 FallbackAnalysis)
       IN  IF result.data # None THEN
               MultiNext(SetStatus(uploadedFiles, fileIndex, "done"),
                         Append(messages,
                                analysisMessage(validFiles[hi], result.data[1])),
                         {})
           ELSE
               MultiNext(uploadedFiles, messages, {})

\* ======================================================= SingleFileChatbot
\* The catch block of handleFileUpload, lines 132-141.
UploadCatch ==
    /\ uploadedFile' = None
    /\ toasts' = {<<"Analysis failed", validFiles[1].name>>}
    /\ HandlerReturns
    /\ selection' = <<>>
    /\ ChatStep
    /\ UNCHANGED << uploadedFiles, messages, request >>

\* handleFileUpload, lines 89-113, to its first await: the type is checked,
\* the record is set, readFileAsBase64 is awaited.  One run at a time.
handleFileUpload(file) ==
    /\ page = "SingleFileChatbot"
    /\ hpc = "idle"
    /\ Len(messages) < MaxMessages
    /\ selection' = << file >>
    /\ ChatStep
    /\ UNCHANGED << uploadedFiles, messages, request, closure, startIndex, hi,
                    fileIndex, delivered, extractedTextArg, contentToAnalyze >>
    /\ IF ~isValidFileType(file) THEN
           /\ toasts' = {<<"Invalid file type", file.name>>}
           /\ UNCHANGED << uploadedFile, hpc, validFiles >>
       ELSE
           /\ uploadedFile' = Some([name |-> file.name, size |-> file.size,
                                    status |-> "analyzing"])
           /\ validFiles' = << file >>
           /\ hpc' = "uploadReading"
           /\ toasts' = {}

\* readFileAsBase64(file) resolves and the request is made, lines 108-112.
UploadReadResolves ==
    /\ hpc = "uploadReading"
    /\ ~readFileAsBase64Rejects(validFiles[1])
    /\ contentToAnalyze' = Some(readFileAsBase64(validFiles[1]))
    /\ request' = Some([fileName |-> validFiles[1].name,
                        fileBase64 |-> readFileAsBase64(validFiles[1])])
    /\ hpc' = "uploadCalling"
    /\ toasts' = {}
    /\ selection' = <<>>
    /\ ChatStep
    /\ UNCHANGED << uploadedFiles, messages, uploadedFile, closure, validFiles,
                    startIndex, hi, fileIndex, delivered, extractedTextArg >>

\* readFileAsBase64(file) rejects: the file is over 10 MB, or the reader fails.
UploadReadRejects ==
    /\ hpc = "uploadReading"
    /\ UploadCatch

\* client.queries.analyzeDocument settles, lines 114-141.
UploadCallSettles(outcome) ==
    /\ hpc = "uploadCalling"
    /\ LET response == AnalysisResponse(outcome, contentToAnalyze[1])
       IN  IF response.throws THEN UploadCatch
           ELSE
               /\ IF response.data # None THEN
                      /\ messages' =
                            Append(messages,
                                   analysisMessage(validFiles[1], response.data[1]))
                      /\ uploadedFile' =
                            IF uploadedFile # None
                            THEN Some([uploadedFile[1] EXCEPT !.status = "done"])
                            ELSE None
                      /\ toasts' = {<<"Document analyzed successfully",
                                      validFiles[1].name>>}
                  ELSE
                      /\ toasts' = {}
                      /\ UNCHANGED << messages, uploadedFile >>
               /\ HandlerReturns
               /\ selection' = <<>>
               /\ ChatStep
               /\ UNCHANGED << uploadedFiles, request >>

Next ==
    \/ \E files \in Selections(Files) : HandleFilesSelected(files)
    \/ \E index \in 1..MaxFiles : HandleRemoveFile(index)
    \/ \E file \in Files : SelectTab(file.name)
    \/ HandleAnalyzeAll
    \/ ReadResolves
    \/ ReadRejects
    \/ \E outcome \in CallOutcomes : ClausesSettle(outcome)
    \/ \E outcome \in CallOutcomes : RisksSettle(outcome)
    \/ AfterAll
    \/ \E files \in Selections(Files) : Extraction_handleFilesSelected(files)
    \/ \E index \in 1..MaxFiles : Extraction_handleRemoveFile(index)
    \/ \E text \in ExtractedTexts : ExtractResolves(text)
    \/ ExtractRejects
    \/ \E files \in Selections(Files) : Multi_handleFilesSelected(files)
    \/ \E index \in 1..MaxFiles : Multi_handleRemoveFile(index)
    \/ MultiReadResolves
    \/ MultiReadRejects
    \/ \E outcome \in CallOutcomes : MultiCallSettles(outcome)
    \/ \E file \in Files : handleFileUpload(file)
    \/ UploadReadResolves
    \/ UploadReadRejects
    \/ \E outcome \in CallOutcomes : UploadCallSettles(outcome)

Spec == Init /\ [][Next]_vars

\* ===================================================== content resolution
\* The files a record can hold: those the intake handlers accept.
ResolveFiles ==
    {file \in Files : isAllowedDocumentOrImage(file) /\ file.size <= MAX_FILE_SIZE}

OptionalTexts == {None} \cup {Some(text) : text \in Texts}

\* The resolution is entered for a record that the handler's closure holds at
\* fileIndex, with any editedText, any extractedText on the record and any
\* extractedText argument: analyzeDocument(fileIndex, extractedText) in the
\* ExtractionChatbot, one iteration of handleFilesSelected's loop in the
\* MultiFileChatbot.
InitResolve ==
    /\ page \in {"ExtractionChatbot", "MultiFileChatbot"}
    /\ MountedAnalyzer
    /\ selection = <<>>
    /\ messages = << Greeting >>
    /\ uploadedFile = None
    /\ contentToAnalyze = None
    /\ request = None
    /\ startIndex = 0
    /\ hi = IF page = "ExtractionChatbot" THEN 1 ELSE 0
    /\ fileIndex = hi
    /\ delivered = None
    /\ hpc = IF page = "ExtractionChatbot" THEN "analyze" ELSE "iterate"
    /\ \E file \in ResolveFiles, edited \in OptionalTexts :
         \E held \in {None, Some(<< 65 >>)} :
           /\ held # None => page = "ExtractionChatbot"
           /\ uploadedFiles =
                 << [file |-> file, status |-> "idle", editedText |-> edited,
                     extractedText |-> held, extractionResult |-> None,
                     progress |-> None] >>
           /\ validFiles = << file >>
    /\ closure = uploadedFiles
    /\ extractedTextArg \in OptionalTexts
    /\ extractedTextArg # None => page = "ExtractionChatbot"

\* The loop of the MultiFileChatbot's handleFilesSelected starts an iteration.
MultiIterates ==
    /\ hpc = "iterate"
    /\ MultiIteration(uploadedFiles, messages, {}, startIndex, validFiles,
                      closure, 1)
    /\ selection' = <<>>
    /\ ChatStep
    /\ UNCHANGED << uploadedFile, closure >>

NextResolve ==
    \/ AnalyzeDocumentCalled
    \/ AnalyzeReadResolves
    \/ AnalyzeReadRejects
    \/ \E outcome \in CallOutcomes : AnalyzeCallSettles(outcome)
    \/ MultiIterates
    \/ MultiReadResolves
    \/ MultiReadRejects
    \/ \E outcome \in CallOutcomes : MultiCallSettles(outcome)

SpecResolve == InitResolve /\ [][NextResolve]_vars

\* ================================================= validation, file by file
\* Files of every allowed type and of three other declared types (the last is
\* a file with no declared type), each at a small size, at exactly 10 MiB and
\* one byte above.
OfferedTypes ==
    << "application/pdf",
       "application/vnd.openxmlformats-officedocument.wordprocessingml.document",
       "application/msword", "text/plain", "image/jpeg", "image/png",
       "image/gif", "application/zip", "image/webp", "" >>

OfferedSizes == << 1024, 10 * 1024 * 1024, 10 * 1024 * 1024 + 1 >>

Offered ==
    { File(100 + 10 * t + s, << "offered", t, s >>, OfferedTypes[t],
           OfferedSizes[s], << 37, 80 >>) :
        t \in 1..Len(OfferedTypes), s \in 1..Len(OfferedSizes) }

\* A page that has just been mounted is handed one file.
ValidateAnalyzer ==
    \E file \in Offered : Mounted /\ HandleFilesSelected(<< file >>)

ValidateExtraction ==
    \E file \in Offered : Mounted /\ Extraction_handleFilesSelected(<< file >>)

ValidateMulti ==
    \E file \in Offered : Mounted /\ Multi_handleFilesSelected(<< file >>)

ValidateSingle ==
    \E file \in Offered : Mounted /\ handleFileUpload(file)

NextValidate ==
    \/ ValidateAnalyzer
    \/ ValidateExtraction
    \/ ValidateMulti
    \/ ValidateSingle

SpecValidate == Init /\ [][NextValidate]_vars

\* ------------------------------------------------------------ the claims
\* The status of the record that holds `file`, "absent" when none does.
StatusOf(list, file) ==
    IF InList(list, file)
    THEN list[CHOOSE k \in 1..Len(list) : list[k].file.id = file.id].status
    ELSE "absent"

\* The results object as the iteration that ends in this step leaves it: the
\* local object while the loop goes on, the published map when it ends.
StoredAfterIteration == IF i < Len(captured) THEN results' ELSE analysisResults'

\* C1: when processing file i fails with a caught error, file i is marked
\* error and gets no entry in the results map, the entries of the files before
\* it are kept, and the loop goes on to the next file.
C1_FailureIsolated ==
    [][ReadRejects =>
          /\ InList(selectedFiles', captured[i])
                => StatusOf(selectedFiles', captured[i]) = "error"
          /\ StoredAfterIteration = results
          /\ i < Len(captured) => (i' = i + 1 /\ pc' = "reading")]_vars

\* C2: when exactly one of the two remote calls fails and the other succeeds,
\* the file reaches done and its stored result holds the successful call's
\* data with the fallback list of the failed call; a stored result always has
\* a clauses list and a risks list.
HasBothLists(map) ==
    \A n \in DOMAIN map : DOMAIN map[n] = {"clauses", "risks"}

C2_PartialFailure ==
    [][/\ HasBothLists(results') /\ HasBothLists(analysisResults')
       /\ (AfterAll /\ {clausesCall, risksCall} = {"fail", "data"}) =>
            /\ InList(selectedFiles', captured[i])
                  => StatusOf(selectedFiles', captured[i]) = "done"
            /\ captured[i].name \in DOMAIN StoredAfterIteration
            /\ StoredAfterIteration[captured[i].name] =
                  IF clausesCall = "fail"
                  THEN [clauses |-> FallbackClauses,
                        risks |-> OrEmpty(AssessedRisks(base64))]
                  ELSE [clauses |-> OrEmpty(ExtractedClauses(base64)),
                        risks |-> FallbackRisks]]_vars

\* C3: in every reachable state each record whose status is done has an entry
\* in analysisResults under its file name.
C3_DoneHasResult ==
    \A k \in 1..Len(selectedFiles) :
        selectedFiles[k].status = "done"
            => selectedFiles[k].file.name \in DOMAIN analysisResults

\* C4: every change of a record's status follows one of the edges of the
\* state machine; uploading is entered only from idle.
Edges ==
    { <<"idle", "extracting">>, <<"extracting", "idle">>,
      <<"extracting", "error">>, <<"idle", "uploading">>,
      <<"uploading", "done">>, <<"uploading", "error">> }

C4_StatusEdges ==
    [][\A file \in Files :
          LET before == StatusOf(selectedFiles, file)
              after  == StatusOf(selectedFiles', file)
          IN  (before # "absent" /\ after # "absent" /\ before # after)
                  => <<before, after>> \in Edges]_vars

\* C9: the two calls of a file are started together and settle in either
\* order; a result is stored and a record marked done only in a step taken
\* when both calls have settled.
StoresResult ==
    IF pc # "idle" /\ pc' = "idle" THEN analysisResults' # results
    ELSE results' # results

MarksDone ==
    \E file \in Files :
        /\ StatusOf(selectedFiles', file) = "done"
        /\ StatusOf(selectedFiles, file) \notin {"done", "absent"}

C9_BothSettleBeforeStore ==
    [][/\ (clausesCall' = "none") = (risksCall' = "none")
       /\ (clausesCall' = "pending" /\ clausesCall # "pending")
              => (risksCall' = "pending" /\ risksCall # "pending")
       /\ (StoresResult \/ MarksDone)
              => /\ pc = "calling"
                 /\ clausesCall \in CallOutcomes
                 /\ risksCall \in CallOutcomes]_vars

\* A first file stored and marked done, the run going on with the second.
C9_Witness ==
    /\ pc = "reading"
    /\ i = 2
    /\ captured[1].name \in DOMAIN results
    /\ StatusOf(selectedFiles, captured[1]) = "done"

\* C10: files enter uploading in batch order, and file k+1 does not enter
\* uploading until file k has left uploading (done or error).
EntersUploading(file) ==
    /\ StatusOf(selectedFiles', file) = "uploading"
    /\ StatusOf(selectedFiles, file) \notin {"uploading", "absent"}

C10_OneAtATime ==
    [][\A k \in 1..Len(captured') :
          EntersUploading(captured'[k]) =>
              /\ i' = k
              /\ \A j \in 1..(k - 1) :
                    StatusOf(selectedFiles', captured'[j])
                        \in {"done", "error", "absent"}]_vars


\* ------------------------------------------------------ the intake claims
\* The validation the specification states, written out on its own: one of
\* the seven types, and at most 10 MiB.
SevenTypes ==
    { "application/pdf",
      "application/vnd.openxmlformats-officedocument.wordprocessingml.document",
      "application/msword", "text/plain", "image/jpeg", "image/png",
      "image/gif" }

TooLarge(file) == file.size > 10 * 1024 * 1024

PassesValidation(file) == file.type \in SevenTypes /\ ~TooLarge(file)

\* The file has a record on a page with these lists and this uploadedFile.
HasRecordIn(analyzerList, chatList, single, file) ==
    \/ InList(analyzerList, file)
    \/ InList(chatList, file)
    \/ /\ single # None
       /\ single[1].name = file.name
       /\ single[1].size = file.size

\* C6: in every intake handler a file over 10 MiB is rejected before it enters
\* the pipeline and never has a record or a status, while a file of an allowed
\* type of at most 10 MiB (exactly 10 MiB included) is accepted.
C6_SizeLimit ==
    [][/\ \A file \in Files :
             TooLarge(file) =>
                 ~HasRecordIn(selectedFiles', uploadedFiles', uploadedFile', file)
       /\ \A k \in 1..Len(selection') :
             PassesValidation(selection'[k]) =>
                 HasRecordIn(selectedFiles', uploadedFiles', uploadedFile',
                             selection'[k])]_vars

\* C8: handleFilesSelected adds an idle record for exactly the files of the
\* selection that pass validation on their own, in their order, after the
\* records already there; a rejected file blocks no other file.  In a chatbot
\* the same step starts on the first added record, which is then extracting
\* (ExtractionChatbot) or uploading (MultiFileChatbot).
Started ==
    CASE page = "ExtractionChatbot" -> "extracting"
      [] page = "MultiFileChatbot"  -> "uploading"
      [] OTHER                      -> "idle"

\* The file passes validation when it is the only file selected.
PassesOnItsOwn(file) == ScreenFiles(<< file >>, <<>>, {}).validFiles = << file >>

C8_EachFileOnItsOwn ==
    [][(selection' # <<>> /\ page # "SingleFileChatbot") =>
          LET passed == SelectSeq(selection', PassesOnItsOwn)
              before == IF page = "DocumentAnalyzer" THEN selectedFiles
                        ELSE uploadedFiles
              after  == IF page = "DocumentAnalyzer" THEN selectedFiles'
                        ELSE uploadedFiles'
          IN  /\ Len(after) = Len(before) + Len(passed)
              /\ \A k \in 1..Len(before) : after[k] = before[k]
              /\ \A k \in 1..Len(passed) :
                    /\ after[Len(before) + k].file = passed[k]
                    /\ after[Len(before) + k].status =
                          IF k = 1 THEN Started ELSE "idle"]_vars

\* A selection whose first file is rejected and whose second file is added
\* after the record already there, in the extraction chatbot.
C8_Witness ==
    /\ Len(selection) = 2
    /\ ~PassesOnItsOwn(selection[1])
    /\ PassesOnItsOwn(selection[2])
    /\ page = "ExtractionChatbot"
    /\ Len(uploadedFiles) = 2
    /\ uploadedFiles[2].file = selection[2]


\* C7: a file is accepted only if its declared type is one of the seven, and
\* each of the seven is accepted; a file of any other type is reported as an
\* invalid type whatever its size, never as too large.
C7_SevenTypes ==
    [][\A k \in 1..Len(selection') :
          LET file == selection'[k]
              recorded == HasRecordIn(selectedFiles', uploadedFiles',
                                      uploadedFile', file)
          IN  IF file.type \in SevenTypes THEN
                  /\ <<"Invalid file type", file.name>> \notin toasts'
                  /\ ~TooLarge(file) => recorded
              ELSE
                  /\ ~recorded
                  /\ <<"Invalid file type", file.name>> \in toasts'
                  /\ <<"File too large", file.name>> \notin toasts']_vars

\* A file of another type and over 10 MiB has been reported as an invalid type.
C7_Witness ==
    /\ Len(selection) = 1
    /\ selection[1].type \notin SevenTypes
    /\ TooLarge(selection[1])
    /\ toasts = {<<"Invalid file type", selection[1].name>>}
    /\ page = "DocumentAnalyzer"


\* ------------------------------------------------- the resolution claim
\* Decoding, written out on its own: base64 to bytes, UTF-8 bytes to code
\* points.
RECURSIVE atob(_)
atob(sextets) ==
    IF Len(sextets) < 4 THEN <<>>
    ELSE LET a == sextets[1]
             b == sextets[2]
             c == sextets[3]
             d == sextets[4]
         IN  IF c = Pad THEN << a * 4 + (b \div 16) >>
             ELSE IF d = Pad THEN
                 << a * 4 + (b \div 16), (b % 16) * 16 + (c \div 4) >>
             ELSE
                 << a * 4 + (b \div 16), (b % 16) * 16 + (c \div 4),
                    (c % 4) * 64 + d >>
                 \o atob(SubSeq(sextets, 5, Len(sextets)))

RECURSIVE DecodeUTF8(_)
DecodeUTF8(bytes) ==
    IF Len(bytes) = 0 THEN <<>>
    ELSE IF bytes[1] < 128 THEN
        << bytes[1] >> \o DecodeUTF8(SubSeq(bytes, 2, Len(bytes)))
    ELSE IF bytes[1] < 224 THEN
        << (bytes[1] - 192) * 64 + (bytes[2] - 128) >>
            \o DecodeUTF8(SubSeq(bytes, 3, Len(bytes)))
    ELSE IF bytes[1] < 240 THEN
        << (bytes[1] - 224) * 4096 + (bytes[2] - 128) * 64 + (bytes[3] - 128) >>
            \o DecodeUTF8(SubSeq(bytes, 4, Len(bytes)))
    ELSE
        << (bytes[1] - 240) * 262144 + (bytes[2] - 128) * 4096
              + (bytes[3] - 128) * 64 + (bytes[4] - 128) >>
            \o DecodeUTF8(SubSeq(bytes, 5, Len(bytes)))

\* Every surrogate of the text has its partner.
RECURSIVE WellFormed(_)
WellFormed(text) ==
    IF Len(text) = 0 THEN TRUE
    ELSE IF IsHigh(text[1]) THEN
        /\ Len(text) > 1
        /\ IsLow(text[2])
        /\ WellFormed(SubSeq(text, 3, Len(text)))
    ELSE ~IsLow(text[1]) /\ WellFormed(Tail(text))

\* The content of a request, whichever field carries it.
ContentSent(sent) ==
    IF "text" \in DOMAIN sent THEN sent.text ELSE sent.fileBase64

\* The step makes a request.
RequestMade == request' # request

ChosenText ==
    IF Truthy(closure[1].editedText) THEN closure[1].editedText
    ELSE IF page = "ExtractionChatbot" /\ Truthy(extractedTextArg)
         THEN extractedTextArg
    ELSE None

RunEnds == pc # "idle" /\ pc' = "idle"

\* C11: no exception escapes handleAnalyzeAll.  A failed read and a failed
\* remote call end the iteration, never the run: the loop goes on to the next
\* file, and after the last file the run writes the results map (every entry
\* of the local results object, and at most the entry of the last file
\* besides) and resets isAnalyzing.
C11_NoExceptionEscapes ==
    [][/\ (ReadRejects \/ AfterAll) =>
             IF i < Len(captured)
             THEN pc' = "reading" /\ i' = i + 1 /\ isAnalyzing'
             ELSE RunEnds
       /\ RunEnds =>
             /\ ~isAnalyzing'
             /\ \A n \in DOMAIN results :
                   n \in DOMAIN analysisResults' /\
                   (n # captured[i].name => analysisResults'[n] = results[n])
             /\ DOMAIN analysisResults' \subseteq
                   DOMAIN results \cup {captured[i].name}
       /\ (pc' = "idle") = ~isAnalyzing']_vars

\* A run has ended in which a read failed for one file and a remote call for
\* another, whose result holds the fallback list.
C11_Witness ==
    /\ pc = "idle"
    /\ ~isAnalyzing
    /\ \E k \in 1..Len(selectedFiles) : selectedFiles[k].status = "error"
    /\ \E n \in DOMAIN analysisResults : analysisResults[n].risks = FallbackRisks


\* ------------------------------------------------ the automatic analysis
\* C12: a file accepted by the ExtractionChatbot's handleFilesSelected whose
\* text extraction succeeds is analyzed without any further user action: when
\* the handler has returned, no record that holds a non-empty extracted text is
\* left idle; it is done, or error when the analysis failed.
C12_AnalyzedAutomatically ==
    (page = "ExtractionChatbot" /\ hpc = "idle") =>
        \A k \in 1..Len(uploadedFiles) :
            Truthy(uploadedFiles[k].extractedText)
                => uploadedFiles[k].status \in {"done", "error"}


\* ------------------------------------------------------ keying by name
\* The result the iteration stores for file i when both calls gave data.
ResultOfBoth ==
    [clauses |-> OrEmpty(ExtractedClauses(readFileAsBase64(captured[i]))),
     risks |-> OrEmpty(AssessedRisks(readFileAsBase64(captured[i])))]

\* C13: the results map is keyed by file name only.  When both calls of file
\* i give data, its result is stored under its name in place of whatever an
\* earlier file of that name left there, the entries of the other names are
\* kept, and no other entry is made: of two files of one name that are both
\* analyzed, the map holds the result of the later one.
C13_KeyedByName ==
    [][(AfterAll /\ clausesCall = "data" /\ risksCall = "data") =>
          LET stored == StoredAfterIteration
              name == captured[i].name
          IN  /\ DOMAIN stored = DOMAIN results \cup {name}
              /\ stored[name] = ResultOfBoth
              /\ \A n \in DOMAIN results \ {name} : stored[n] = results[n]]_vars

\* A run over two files named a.pdf has ended with both done: one entry, which
\* holds what the services made of the second file's content.
C13_Witness ==
    /\ pc = "idle"
    /\ Len(selectedFiles) = 2
    /\ selectedFiles[1].file.name = selectedFiles[2].file.name
    /\ selectedFiles[1].file.bytes # selectedFiles[2].file.bytes
    /\ selectedFiles[1].status = "done"
    /\ selectedFiles[2].status = "done"
    /\ DOMAIN analysisResults = {selectedFiles[2].file.name}
    /\ analysisResults[selectedFiles[2].file.name] =
          [clauses |-> OrEmpty(ExtractedClauses(readFileAsBase64(selectedFiles[2].file))),
           risks |-> OrEmpty(AssessedRisks(readFileAsBase64(selectedFiles[2].file)))]


\* ============================================================ the summary
\* handleCopySummary and handleDownloadSummary build the same text from the
\* stored result.  A text is a sequence of lines and a line the sequence of
\* the pieces the template puts together.
MaxList == 2

\* list.map(line).join('\n'): no line at all makes one empty line.
JoinLines(lines) == IF lines = <<>> THEN << <<>> >> ELSE lines

\* The bullet that starts a line of a list.
Bullet == "* "

ClauseLine(c) == << Bullet, c.title, ": ", c.snippet >>

\* A risk line that gives the recommended action in place of the explanation.
RiskLineWithAction(r) ==
    << Bullet, r.risk, " (", r.severity, "): ", r.recommendedAction >>

RiskLine(r) == << Bullet, r.risk, " (", r.severity, "): ", r.explanation >>

SummaryText(fileName, result) ==
    << << "Document Analysis Summary - ", fileName >>, <<>>, << "Key Clauses:" >> >>
    \o JoinLines([k \in 1..Len(result.clauses) |-> ClauseLine(result.clauses[k])])
    \o << <<>>, << "Risks:" >> >>
    \o JoinLines([k \in 1..Len(result.risks) |-> RiskLine(result.risks[k])])

\* What a step on a stored result leaves alone.
SummaryStep ==
    /\ page = "DocumentAnalyzer"
    /\ selection' = <<>>
    /\ UNCHANGED << page, analyzerVars, chatVars, extraction, editingFile, second, send,
                    invocation >>

HandleCopySummary(fileName) ==
    /\ SummaryStep
    /\ fileName \in DOMAIN analysisResults
    /\ summary' = Some([to |-> "clipboard", name |-> <<>>,
                        text |-> SummaryText(fileName, analysisResults[fileName])])
    /\ toasts' = {<<"Summary copied", fileName>>}

HandleDownloadSummary(fileName) ==
    /\ SummaryStep
    /\ fileName \in DOMAIN analysisResults
    /\ summary' = Some([to |-> "download",
                        name |-> << "analysis-", fileName, ".txt" >>,
                        text |-> SummaryText(fileName, analysisResults[fileName])])
    /\ toasts' = {<<"Summary downloaded", fileName>>}

\* The results a run can have stored: lists of up to MaxList clauses and risks
\* of the shape FileAnalysisResult.
StoredClauses == SeqsOver(Range(FallbackClauses), MaxList)

StoredRisks == SeqsOver(Range(FallbackRisks), MaxList)

\* The analyzer holds one analyzed file and its stored result.
InitSummary ==
    /\ page = "DocumentAnalyzer"
    /\ isAnalyzing = FALSE
    /\ toasts = {}
    /\ summary = None
    /\ extraction = None
    /\ editingFile = None
    /\ second = None
    /\ send = NoMessage
    /\ invocation = None
    /\ pc = "idle"
    /\ captured = <<>>
    /\ i = 0
    /\ results = EmptyMap
    /\ base64 = <<>>
    /\ clausesCall = "none"
    /\ risksCall = "none"
    /\ selection = <<>>
    /\ uploadedFiles = <<>>
    /\ messages = << Greeting >>
    /\ uploadedFile = None
    /\ hpc = "idle"
    /\ closure = <<>>
    /\ validFiles = <<>>
    /\ startIndex = 0
    /\ hi = 0
    /\ fileIndex = 0
    /\ delivered = None
    /\ extractedTextArg = None
    /\ contentToAnalyze = None
    /\ request = None
    /\ \E file \in {f \in Files : f.size <= MAX_FILE_SIZE} :
         /\ selectedFiles = << [file |-> file, status |-> "done"] >>
         /\ activeTab = file.name
         /\ \E clauses \in StoredClauses, risks \in StoredRisks :
              analysisResults =
                  Put(EmptyMap, file.name, [clauses |-> clauses, risks |-> risks])

NextSummary ==
    \/ \E file \in Files : HandleCopySummary(file.name)
    \/ \E file \in Files : HandleDownloadSummary(file.name)

SpecSummary == InitSummary /\ [][NextSummary]_vars


\* ------------------------------------------------------ the summary claim
\* The step produces a summary; the result it is made from; where the text
\* has its clause lines and its risk lines.
SummaryProduced == summary' # summary

SummarisedResult == analysisResults[summary'[1].text[1][2]]

AtLeastOne(n) == IF n = 0 THEN 1 ELSE n

ClauseLineAt(k) == summary'[1].text[3 + k]

RiskLineAt(k) ==
    summary'[1].text[3 + AtLeastOne(Len(SummarisedResult.clauses)) + 2 + k]

\* The text lists every clause in stored order and then every risk in stored
\* order, each on a line of its own under its heading.
ListsClausesThenRisks ==
    LET text == summary'[1].text
        clauses == SummarisedResult.clauses
        risks == SummarisedResult.risks
    IN  /\ text[1][2] \in DOMAIN analysisResults
        /\ Len(text) = 3 + AtLeastOne(Len(clauses)) + 2 + AtLeastOne(Len(risks))
        /\ text[3] = << "Key Clauses:" >>
        /\ text[3 + AtLeastOne(Len(clauses)) + 2] = << "Risks:" >>
        /\ \A k \in 1..Len(clauses) :
              {clauses[k].title, clauses[k].snippet} \subseteq Range(ClauseLineAt(k))
        /\ \A k \in 1..Len(risks) : risks[k].risk \in Range(RiskLineAt(k))

\* C14 as the specification states it: every clause in stored order, then
\* every risk in stored order, and each risk line carries the risk's severity
\* and its recommended action.
C14_SeverityAndAction ==
    [][SummaryProduced =>
          /\ ListsClausesThenRisks
          /\ \A k \in 1..Len(SummarisedResult.risks) :
                {SummarisedResult.risks[k].severity,
                 SummarisedResult.risks[k].recommendedAction}
                    \subseteq Range(RiskLineAt(k))]_vars

\* C14, amended: every clause in stored order, then every risk in stored
\* order; each risk line carries the risk's severity and its explanation, and
\* the recommended action is not in the text.  The copy and the download of
\* one result give the same text.
C14_SeverityAndExplanation ==
    [][SummaryProduced =>
          /\ ListsClausesThenRisks
          /\ \A k \in 1..Len(SummarisedResult.risks) :
                /\ {SummarisedResult.risks[k].severity,
                    SummarisedResult.risks[k].explanation}
                       \subseteq Range(RiskLineAt(k))
                /\ \A n \in 1..Len(summary'[1].text) :
                      SummarisedResult.risks[k].recommendedAction
                          \notin Range(summary'[1].text[n])
          /\ summary # None /\ summary[1].text[1] = summary'[1].text[1]
                => summary'[1].text = summary[1].text]_vars

\* A result of two clauses and two risks of different severity has been
\* downloaded: nine lines.
C14_Witness ==
    /\ summary # None
    /\ summary[1].to = "download"
    /\ toasts = {<<"Summary downloaded", activeTab>>}
    /\ Len(analysisResults[activeTab].clauses) = 2
    /\ Len(analysisResults[activeTab].risks) = 2
    /\ analysisResults[activeTab].risks[1].severity
          # analysisResults[activeTab].risks[2].severity
    /\ Len(summary[1].text) = 9


\* ------------------------------------------------------ the removal claim
\* C15: after handleRemoveFile has removed a file, the batch does not hold its
\* record and the results map has no entry under its name until a file of
\* that name is added again, also when a run that was going on at the removal
\* has finished: every entry of the results map is the entry of a file that
\* the batch holds.
C15_RemovedStaysRemoved ==
    \A n \in DOMAIN analysisResults :
        \E k \in 1..Len(selectedFiles) : selectedFiles[k].file.name = n


\* ======================================================= the extraction engine
\* services/textExtractor's extractText, after section 4.2 of the
\* specification.  What the engine's collaborators do is given with the call:
\*   native  what the native extractor of the file's type does: kind "none"
\*           when the type has no native extractor, else kind "text" with the
\*           text it yields (empty for a scanned document) or kind "fails";
\*   ocr     what the OCR pass would do: kind "text" with the text it
\*           recognizes in so many pages, or kind "fails".
MaxPages == 2

\* The types with a native extractor, and those without (raw images).
NativeTypes == {PDF, DOCX, TXT}

ImageTypes == {JPEG, PNG, GIF}

Outcome(kind, text, pages) == [kind |-> kind, text |-> text, pages |-> pages]

NativeOutcomes(type) ==
    (IF type \in NativeTypes THEN {} ELSE {Outcome("none", <<>>, 0)})
    \cup (IF type \in ImageTypes THEN {}
          ELSE {Outcome("fails", <<>>, 0), Outcome("text", <<>>, 0),
                Outcome("text", << 65 >>, 0)})

OcrOutcomes ==
    {Outcome("fails", <<>>, 0)}
    \cup {Outcome("text", t, n) : t \in {<<>>, << 233 >>}, n \in 1..MaxPages}

\* The outcome gave a text that is not empty.
GaveText(outcome) == outcome.kind = "text" /\ outcome.text # <<>>

\* The progress events of an OCR pass over n pages: one per page, ending at 100.
OcrProgress(n) == [k \in 1..n |-> (k * 100) \div n]

ExtractionFails(ranOCR) ==
    [fails |-> TRUE, text |-> None, source |-> None, progress |-> <<>>,
     ranOCR |-> ranOCR]

\* An engine that runs the OCR pass whatever the options say.
extractTextAlwaysOCR(options, native, ocr) ==
    IF GaveText(native) THEN
        [fails |-> FALSE, text |-> Some(native.text), source |-> Some("native"),
         progress |-> <<>>, ranOCR |-> FALSE]
    ELSE IF GaveText(ocr) THEN
        [fails |-> FALSE, text |-> Some(ocr.text), source |-> Some("ocr"),
         progress |-> OcrProgress(ocr.pages), ranOCR |-> TRUE]
    ELSE ExtractionFails(TRUE)

extractText(options, native, ocr) ==
    IF GaveText(native) THEN
        [fails |-> FALSE, text |-> Some(native.text), source |-> Some("native"),
         progress |-> <<>>, ranOCR |-> FALSE]
    ELSE IF ~options.fallbackToOCR THEN ExtractionFails(FALSE)
    ELSE IF GaveText(ocr) THEN
        [fails |-> FALSE, text |-> Some(ocr.text), source |-> Some("ocr"),
         progress |-> OcrProgress(ocr.pages), ranOCR |-> TRUE]
    ELSE ExtractionFails(TRUE)

\* extractText is called, for a file of any accepted type, with either value
\* of fallbackToOCR and any outcome of the collaborators.
ExtractTextCalled ==
    /\ page = "ExtractionChatbot"
    /\ extraction = None
    /\ \E type \in validTypes, fallbackToOCR \in BOOLEAN :
         \E native \in NativeOutcomes(type), ocr \in OcrOutcomes :
            extraction' =
                Some([file |-> File(1, "a", type, 1024, << 37 >>),
                      options |-> [fallbackToOCR |-> fallbackToOCR],
                      native |-> native, ocr |-> ocr, result |-> None])
    /\ UNCHANGED << page, selection, analyzerVars, chatVars, toasts, summary,
                    editingFile, second, send, invocation >>

\* The call settles.
ExtractTextSettles ==
    /\ extraction # None
    /\ extraction[1].result = None
    /\ extraction' =
          Some([extraction[1] EXCEPT !.result =
                   Some(extractText(extraction[1].options, extraction[1].native,
                                    extraction[1].ocr))])
    /\ UNCHANGED << page, selection, analyzerVars, chatVars, toasts, summary,
                    editingFile, second, send, invocation >>

NextExtract ==
    \/ ExtractTextCalled
    \/ ExtractTextSettles

SpecExtract == Init /\ [][NextExtract]_vars


\* ------------------------------------------------------ the extraction claim
\* C16: extract tries the native extractor first and, when that yields a
\* non-empty text, returns it with source native without running OCR; OCR runs
\* only when native extraction gave no text or the type has no native
\* extractor, and only when fallbackToOCR is true, and then the result has
\* source ocr; when fallbackToOCR is false in that situation, or OCR fails as
\* well, the call fails and returns no text.  A success never has an empty text.
C16_NativeThenOCR ==
    [][ExtractTextSettles =>
          LET call == extraction[1]
              result == extraction'[1].result[1]
              nativeText == call.native.kind = "text" /\ call.native.text # <<>>
              ocrText == call.ocr.kind = "text" /\ call.ocr.text # <<>>
          IN  /\ nativeText =>
                    /\ ~result.fails
                    /\ result.source = Some("native")
                    /\ result.text = Some(call.native.text)
                    /\ ~result.ranOCR
              /\ result.ranOCR = (~nativeText /\ call.options.fallbackToOCR)
              /\ (~nativeText /\ call.options.fallbackToOCR /\ ocrText) =>
                    /\ ~result.fails
                    /\ result.source = Some("ocr")
                    /\ result.text = Some(call.ocr.text)
              /\ (~nativeText /\ (~call.options.fallbackToOCR \/ ~ocrText)) =>
                    /\ result.fails
                    /\ result.text = None
              /\ ~result.fails => result.text # Some(<<>>)]_vars

\* An image, which has no native extractor, has been read by OCR.
C16_Witness ==
    /\ extraction # None
    /\ extraction[1].result # None
    /\ extraction[1].file.type \in ImageTypes
    /\ extraction[1].native.kind = "none"
    /\ extraction[1].result[1].source = Some("ocr")
    /\ extraction[1].result[1].text = Some(<< 233 >>)


\* ------------------------------------------------- leaving uploading
\* C17: each record that handleAnalyzeAll or analyzeDocument puts into
\* uploading reaches done or error once the reads and the calls have settled:
\* when the run has ended, no record is still in uploading.
C17_NoneLeftUploading ==
    /\ (page = "DocumentAnalyzer" /\ pc = "idle") =>
          \A k \in 1..Len(selectedFiles) : selectedFiles[k].status # "uploading"
    /\ (page = "ExtractionChatbot" /\ hpc = "idle") =>
          \A k \in 1..Len(uploadedFiles) : uploadedFiles[k].status # "uploading"


\* ------------------------------------------------------------------ C18
\* The record of selectedFiles that holds the file, if one does.
RecordOf(list, file) ==
    LET at == {k \in 1..Len(list) : list[k].file.id = file.id}
    IN  IF at = {} THEN None ELSE Some(list[CHOOSE k \in at : TRUE])

\* The file handleAnalyzeAll is analyzing before the step, and after it.
FileInHand == IF i \in 1..Len(captured) THEN Some(captured[i]) ELSE None
FileInHandNext == IF i' \in 1..Len(captured') THEN Some(captured'[i']) ELSE None

\* C18: every status update made while handleAnalyzeAll analyzes file f goes
\* to the record that holds f and to no other record, also when a file is
\* removed from the list while the batch is running: a record whose status a
\* step changes to done or error holds the file the iteration analyzed, one
\* whose status a step changes to uploading holds the file the next iteration
\* analyzes, and the record of the file an iteration ends with an error for is
\* in error after it.
C18_UpdatesReachTheirFile ==
    [][ /\ \A k \in 1..Len(selectedFiles') :
              LET rec == selectedFiles'[k]
                  old == RecordOf(selectedFiles, rec.file)
              IN  (old # None /\ old[1].status # rec.status) =>
                     \/ /\ rec.status = "uploading"
                        /\ FileInHandNext # None
                        /\ FileInHandNext[1].id = rec.file.id
                     \/ /\ rec.status \in {"done", "error"}
                        /\ FileInHand # None
                        /\ FileInHand[1].id = rec.file.id
        /\ (pc = "reading" /\ i' # i) =>
              LET rec == RecordOf(selectedFiles', captured[i])
              IN  rec # None => rec[1].status = "error"
      ]_vars


\* ------------------------------------------------------------------ C19
\* The file the extraction pass is working on before a step, and after it.
FileOfPass == IF hi \in 1..Len(validFiles) THEN {validFiles[hi].id} ELSE {}
FileOfPassNext == IF hi' \in 1..Len(validFiles') THEN {validFiles'[hi'].id} ELSE {}

\* C19: in the chatbot's extraction pass the status, progress and
\* extractedText (with it the extractionResult) written for file f go to the
\* record that holds f, whatever selections, removals and completions
\* interleave: a record a step marks as extracting holds the file the pass
\* goes on to, and a record in which a step changes the extracted text, or
\* the status or progress in any other way, holds the file the pass was
\* working on.
C19_WritesReachTheirFile ==
    [][ page = "ExtractionChatbot" =>
          \A k \in 1..Len(uploadedFiles') :
             LET rec == uploadedFiles'[k]
                 old == RecordOf(uploadedFiles, rec.file)
             IN  old # None =>
                    /\ (old[1].extractedText # rec.extractedText) =>
                          rec.file.id \in FileOfPass
                    /\ (old[1].status # rec.status \/ old[1].progress # rec.progress) =>
                          IF rec.status = "extracting"
                          THEN rec.file.id \in FileOfPassNext
                          ELSE rec.file.id \in FileOfPass
      ]_vars


\* ====================================================== the document editor
\* The texts a user saves in the editor: an empty one and one of one character.
EditedTexts == {<<>>, << 233 >>}

\* FileReader.readAsText of a text/plain file: one code unit for each byte
\* (the files here hold ASCII).
readAsText(file) == file.bytes

\* The placeholder of lines 850 and 1298, kept to its first characters, "[C".
PlaceholderText == << 91, 67 >>

\* initialText of handleEditFile: the edited text, else (in the chatbot with
\* text extraction, lines 840-841) the extracted text, else the content of a
\* text/plain file, else the placeholder.
InitialText(uploadedFile_, useExtracted) ==
    IF Truthy(uploadedFile_.editedText) THEN uploadedFile_.editedText[1]
    ELSE IF useExtracted /\ Truthy(uploadedFile_.extractedText)
         THEN uploadedFile_.extractedText[1]
    ELSE IF uploadedFile_.file.type = TXT THEN readAsText(uploadedFile_.file)
    ELSE PlaceholderText

\* Whether handleEditFile reads the file (and so can fail in the reader).
ReadsForEditing(uploadedFile_, useExtracted) ==
    /\ ~Truthy(uploadedFile_.editedText)
    /\ ~(useExtracted /\ Truthy(uploadedFile_.extractedText))
    /\ uploadedFile_.file.type = TXT

\* handleEditFile(index) of the last render, to its end: the editor opens on
\* the record's text, or the reader fails and a toast is raised.
EditFile(index, useExtracted, readerFails) ==
    /\ index \in 1..Len(uploadedFiles)
    /\ readerFails => ReadsForEditing(uploadedFiles[index], useExtracted)
    /\ IF readerFails THEN
           /\ toasts' = {<<"Error", "">>}
           /\ UNCHANGED editingFile
       ELSE
           /\ toasts' = {}
           /\ editingFile' =
                 Some([file |-> uploadedFiles[index].file,
                       text |-> InitialText(uploadedFiles[index], useExtracted)])
    /\ selection' = <<>>
    /\ UNCHANGED << page, analyzerVars, chatVars, summary, extraction, second, send,
                    invocation >>

\* handleEditFile, lines 831-862.
Extraction_handleEditFile(index, readerFails) ==
    /\ page = "ExtractionChatbot"
    /\ EditFile(index, TRUE, readerFails)

\* handleEditFile, lines 1281-1310.
Multi_handleEditFile(index, readerFails) ==
    /\ page = "MultiFileChatbot"
    /\ EditFile(index, FALSE, readerFails)

\* The records after handleSaveEditedText: every record whose file has the
\* name and the size of the edited file gets the text.
SaveOnRecords(newText) ==
    [n \in 1..Len(uploadedFiles) |->
        IF /\ uploadedFiles[n].file.name = editingFile[1].file.name
           /\ uploadedFiles[n].file.size = editingFile[1].file.size
        THEN [uploadedFiles[n] EXCEPT !.editedText = Some(newText)]
        ELSE uploadedFiles[n]]

\* handleSaveEditedText(newText), the editor's onSave.
SaveEditedText(newText) ==
    /\ editingFile # None
    /\ uploadedFiles' = SaveOnRecords(newText)
    /\ editingFile' = None
    /\ toasts' = {<<"Document updated", "">>}
    /\ selection' = <<>>
    /\ UNCHANGED << page, analyzerVars, summary, extraction, second, send, invocation,
                    messages,
                    uploadedFile, hpc, closure, validFiles, startIndex, hi,
                    fileIndex, delivered, extractedTextArg, contentToAnalyze, request >>

\* handleSaveEditedText, lines 864-882.
Extraction_handleSaveEditedText(newText) ==
    /\ page = "ExtractionChatbot"
    /\ SaveEditedText(newText)

\* handleSaveEditedText, lines 1312-1327.
Multi_handleSaveEditedText(newText) ==
    /\ page = "MultiFileChatbot"
    /\ SaveEditedText(newText)

\* The editor's onClose: setEditingFile(null), lines 1055 and 1474.
CloseEditor ==
    /\ page \in {"ExtractionChatbot", "MultiFileChatbot"}
    /\ editingFile # None
    /\ editingFile' = None
    /\ toasts' = {}
    /\ selection' = <<>>
    /\ UNCHANGED << page, analyzerVars, chatVars, summary, extraction, second, send,
                    invocation >>

\* The two chatbots that keep a list of records, with their editor.
InitEdit ==
    /\ page \in {"ExtractionChatbot", "MultiFileChatbot"}
    /\ Mounted

NextEdit ==
    \/ \E files \in Selections(Files) : Extraction_handleFilesSelected(files)
    \/ \E index \in 1..MaxFiles : Extraction_handleRemoveFile(index)
    \/ \E text \in ExtractedTexts : ExtractResolves(text)
    \/ ExtractRejects
    \/ \E index \in 1..MaxFiles, readerFails \in BOOLEAN :
          Extraction_handleEditFile(index, readerFails)
    \/ \E newText \in EditedTexts : Extraction_handleSaveEditedText(newText)
    \/ \E files \in Selections(Files) : Multi_handleFilesSelected(files)
    \/ \E index \in 1..MaxFiles : Multi_handleRemoveFile(index)
    \/ MultiReadResolves
    \/ MultiReadRejects
    \/ \E outcome \in CallOutcomes : MultiCallSettles(outcome)
    \/ \E index \in 1..MaxFiles, readerFails \in BOOLEAN :
          Multi_handleEditFile(index, readerFails)
    \/ \E newText \in EditedTexts : Multi_handleSaveEditedText(newText)
    \/ CloseEditor

SpecEdit == InitEdit /\ [][NextEdit]_vars


\* ------------------------------------------------------------------ C20
\* The extraction pass has an extraction resolve in this step, and so calls
\* analyzeDocument for the file it was working on.
AnalysisStepOfPass ==
    /\ page = "ExtractionChatbot"
    /\ hpc = "extracting"
    /\ \E t \in toasts' : t[1] = "Text extracted successfully"

\* The loop of the multi-file chatbot starts the iteration of a file.
AnalysisStepOfLoop ==
    /\ page = "MultiFileChatbot"
    /\ hi' # hi
    /\ hi' \in 1..Len(validFiles')

\* C20: a text that is saved for a file in the editor before that file's
\* analysis step starts (also while the file is being extracted, or while an
\* earlier file of the selection is being processed) is what the analysis of
\* the file sends: when the step starts for a file whose record holds a
\* non-empty editedText, the request carries that text and neither the
\* extracted text nor the file's content (in the chatbot with text
\* extraction: the file is not read, and a request that is made carries that
\* text encoded).
C20_EditedTextIsSent ==
    [][ /\ AnalysisStepOfLoop =>
              LET rec == RecordOf(uploadedFiles, validFiles'[hi'])
              IN  (rec # None /\ Truthy(rec[1].editedText)) =>
                     /\ hpc' = "calling"
                     /\ request' # None
                     /\ request'[1].fileName = validFiles'[hi'].name
                     /\ "text" \in DOMAIN request'[1]
                     /\ request'[1].text = rec[1].editedText[1]
        /\ AnalysisStepOfPass =>
              LET rec == RecordOf(uploadedFiles, validFiles[hi])
              IN  (rec # None /\ Truthy(rec[1].editedText)) =>
                     /\ hpc' # "analyzeReading"
                     /\ hpc' = "analyzeCalling" =>
                           /\ request' # None
                           /\ request'[1].fileName = validFiles[hi].name
                           /\ request'[1].fileBase64 =
                                 btoa(unescape(encodeURIComponent(
                                          rec[1].editedText[1])))
      ]_vars


\* ================================== a second run of handleFilesSelected
\* The UploadPicker of the multi-file chatbot is disabled by isLoading (line
\* 1436), which handleFilesSelected never sets: files can be selected while
\* a run of the handler is still in its loop.  `second` holds the state of
\* such a run, [closure, validFiles, startIndex, hi, fileIndex, hpc,
\* contentToAnalyze], the fields meaning what the variables of the same
\* names mean for the first run; at most two runs are followed.
SecondStep ==
    UNCHANGED << page, analyzerVars, summary, extraction, editingFile, send,
                 invocation,
                 uploadedFile, hpc, closure, validFiles, startIndex, hi,
                 fileIndex, delivered, extractedTextArg, contentToAnalyze >>

\* The loop of handleFilesSelected, lines 1199-1242, in the second run:
\* iteration k to its first await.
SecondIteration(list, msgs, raised, run, k) ==
    LET index == run.startIndex + k
        file == run.validFiles[k]
        found == index \in 1..Len(run.closure)
        edited == found /\ Truthy(run.closure[index].editedText)
    IN  /\ uploadedFiles' = SetStatus(list, index, "uploading")
        /\ messages' = msgs
        /\ toasts' = raised
        /\ IF edited THEN
               /\ request' = Some([fileName |-> file.name,
                                   text |-> run.closure[index].editedText[1]])
               /\ second' =
                     Some([run EXCEPT
                              !.hi = k, !.fileIndex = index, !.hpc = "calling",
                              !.contentToAnalyze =
                                  Some(run.closure[index].editedText[1])])
           ELSE
               /\ UNCHANGED request
               /\ second' =
                     Some([run EXCEPT
                              !.hi = k, !.fileIndex = index, !.hpc = "reading",
                              !.contentToAnalyze = None])

\* The end of an iteration of the second run: the next one, or the return.
SecondNext(list, msgs, raised) ==
    /\ selection' = <<>>
    /\ SecondStep
    /\ IF second[1].hi < Len(second[1].validFiles) THEN
           SecondIteration(list, msgs, raised, second[1], second[1].hi + 1)
       ELSE
           /\ uploadedFiles' = list
           /\ messages' = msgs
           /\ toasts' = raised
           /\ second' = None
           /\ UNCHANGED request

\* handleFilesSelected, lines 1162-1275, called while a run of it is in its
\* loop, to its first await.
Second_handleFilesSelected(files) ==
    /\ page = "MultiFileChatbot"
    /\ hpc # "idle"
    /\ second = None
    /\ \A k \in 1..Len(files) : ~InList(uploadedFiles, files[k])
    /\ selection' = files
    /\ SecondStep
    /\ LET screened == ScreenFiles(files, <<>>, {})
       IN  /\ Len(uploadedFiles) + Len(screened.validFiles) <= MaxFiles
           /\ Len(messages) + Len(screened.validFiles) <= MaxMessages
           /\ IF Len(screened.validFiles) = 0 THEN
                  /\ toasts' = screened.toasts
                  /\ UNCHANGED << uploadedFiles, messages, request, second >>
              ELSE
                  SecondIteration(
                      uploadedFiles \o NewUploadedFiles(screened.validFiles),
                      messages, screened.toasts,
                      [closure |-> uploadedFiles,
                       validFiles |-> screened.validFiles,
                       startIndex |-> Len(uploadedFiles),
                       hi |-> 0, fileIndex |-> 0, hpc |-> "reading",
                       contentToAnalyze |-> None],
                      1)

\* readFilesAsBase64([file]) resolves in the second run, lines 1218-1219.
SecondReadResolves ==
    /\ second # None
    /\ second[1].hpc = "reading"
    /\ LET file == second[1].validFiles[second[1].hi]
           read == readFilesAsBase64(<< file >>)[1].base64
       IN  /\ ~readFileAsBase64Rejects(file)
           /\ request' = Some([fileName |-> file.name, fileBase64 |-> read])
           /\ second' = Some([second[1] EXCEPT !.hpc = "calling",
                                               !.contentToAnalyze = Some(read)])
    /\ toasts' = {}
    /\ selection' = <<>>
    /\ SecondStep
    /\ UNCHANGED << uploadedFiles, messages >>

\* The catch block of the second run, lines 1260-1273.
SecondReadRejects ==
    /\ second # None
    /\ second[1].hpc = "reading"
    /\ SecondNext(SetStatus(uploadedFiles, second[1].fileIndex, "error"),
                  messages,
                  {<<"Analysis failed",
                     second[1].validFiles[second[1].hi].name>>})

\* safeApiCall settles in the second run, lines 1244-1259.
SecondCallSettles(outcome) ==
    /\ second # None
    /\ second[1].hpc = "calling"
    /\ LET result ==
               safeApiCall(AnalysisResponse(outcome,
                                            second[1].contentToAnalyze[1]),
                           FallbackAnalysis)
       IN  IF result.data # None THEN
               SecondNext(SetStatus(uploadedFiles, second[1].fileIndex, "done"),
                          Append(messages,
                                 analysisMessage(
                                     second[1].validFiles[second[1].hi],
                                     result.data[1])),
                          {})
           ELSE
               SecondNext(uploadedFiles, messages, {})

\* =============================== a second run of the extraction chatbot's
\* handleFilesSelected (lines 626-664), called while a pass is pending: the
\* handler has no guard against it.  `second` holds its state as above.
\* extractTextFromFiles in the second run: iteration k to its await.
SecondPassIteration(list, raised, run, k) ==
    /\ uploadedFiles' =
          [n \in 1..Len(list) |->
              IF n = run.startIndex + k
              THEN [list[n] EXCEPT !.status = "extracting", !.progress = Some(0)]
              ELSE list[n]]
    /\ toasts' = raised
    /\ second' = Some([run EXCEPT !.hi = k, !.fileIndex = run.startIndex + k,
                                  !.hpc = "extracting"])

\* The end of an iteration of the second pass: the next one, or the return.
SecondPassNext(list, raised) ==
    /\ selection' = <<>>
    /\ SecondStep
    /\ UNCHANGED << messages, request >>
    /\ IF second[1].hi < Len(second[1].validFiles) THEN
           SecondPassIteration(list, raised, second[1], second[1].hi + 1)
       ELSE
           /\ uploadedFiles' = list
           /\ toasts' = raised
           /\ second' = None

SecondPass_handleFilesSelected(files) ==
    /\ page = "ExtractionChatbot"
    /\ hpc # "idle"
    /\ second = None
    /\ \A k \in 1..Len(files) : ~InList(uploadedFiles, files[k])
    /\ selection' = files
    /\ SecondStep
    /\ UNCHANGED << messages, request >>
    /\ LET screened == ScreenFiles(files, <<>>, {})
       IN  /\ Len(uploadedFiles) + Len(screened.validFiles) <= MaxFiles
           /\ IF Len(screened.validFiles) = 0 THEN
                  /\ toasts' = screened.toasts
                  /\ UNCHANGED << uploadedFiles, second >>
              ELSE
                  SecondPassIteration(
                      uploadedFiles \o NewUploadedFiles(screened.validFiles),
                      screened.toasts,
                      [closure |-> uploadedFiles,
                       validFiles |-> screened.validFiles,
                       startIndex |-> Len(uploadedFiles),
                       hi |-> 0, fileIndex |-> 0, hpc |-> "extracting",
                       contentToAnalyze |-> None],
                      1)

\* extractText resolves in the second pass, lines 688-705.  analyzeDocument
\* returns at line 727: fileIndex is past the end of the closure's list.
SecondPassResolves(text) ==
    /\ second # None
    /\ second[1].hpc = "extracting"
    /\ second[1].fileIndex \notin 1..Len(second[1].closure)
    /\ SecondPassNext(
           [n \in 1..Len(uploadedFiles) |->
               IF n = second[1].fileIndex THEN Extracted(uploadedFiles[n], text)
               ELSE uploadedFiles[n]],
           {<<"Text extracted successfully",
              second[1].validFiles[second[1].hi].name>>})

\* extractText rejects in the second pass, lines 707-721.
SecondPassRejects ==
    /\ second # None
    /\ second[1].hpc = "extracting"
    /\ SecondPassNext(
           [n \in 1..Len(uploadedFiles) |->
               IF n = second[1].fileIndex
               THEN [uploadedFiles[n] EXCEPT !.status = "error",
                                             !.progress = Some(0)]
               ELSE uploadedFiles[n]],
           {<<"Text extraction failed",
              second[1].validFiles[second[1].hi].name>>})

InitOverlap ==
    /\ page \in {"ExtractionChatbot", "MultiFileChatbot"}
    /\ Mounted

\* Two runs of a handler side by side.
NextOverlap ==
    \/ \E files \in Selections(Files) : Extraction_handleFilesSelected(files)
    \/ \E index \in 1..MaxFiles : Extraction_handleRemoveFile(index)
    \/ \E text \in ExtractedTexts : ExtractResolves(text)
    \/ ExtractRejects
    \/ \E files \in Selections(Files) : SecondPass_handleFilesSelected(files)
    \/ \E text \in ExtractedTexts : SecondPassResolves(text)
    \/ SecondPassRejects
    \/ \E files \in Selections(Files) : Multi_handleFilesSelected(files)
    \/ MultiReadResolves
    \/ MultiReadRejects
    \/ \E outcome \in CallOutcomes : MultiCallSettles(outcome)
    \/ \E files \in Selections(Files) : Second_handleFilesSelected(files)
    \/ SecondReadResolves
    \/ SecondReadRejects
    \/ \E outcome \in CallOutcomes : SecondCallSettles(outcome)

SpecOverlap == InitOverlap /\ [][NextOverlap]_vars

\* ------------------------------------------------------------------ C21
\* The records of a list that are being extracted or analyzed.
InProcess(list) ==
    {k \in 1..Len(list) : list[k].status \in {"extracting", "uploading"}}

\* C21: at any time at most one record of the whole list is in extracting or
\* uploading, also when a second group of files is selected while the first
\* group is still being extracted or analyzed.
C21_OneInProcess ==
    /\ Cardinality(InProcess(selectedFiles)) <= 1
    /\ Cardinality(InProcess(uploadedFiles)) <= 1


ExtractionFailed ==
    /\ page = "ExtractionChatbot"
    /\ hpc = "extracting"
    /\ \E t \in toasts' : t[1] = "Text extraction failed"

\* What a failed extraction leaves of the pass, given the progress the
\* record is to have: the record the pass addresses is in error with that
\* progress and its extractedText untouched, every record taken out of
\* extracting has no extractedText, no analysis is started, and the pass
\* goes on with the next file of the selection if there is one.
FailureHandled(progress) ==
    /\ \A k \in 1..Len(uploadedFiles') :
          LET rec == uploadedFiles'[k]
              old == RecordOf(uploadedFiles, rec.file)
          IN  /\ old # None
              /\ k = fileIndex =>
                    /\ rec.status = "error"
                    /\ rec.progress = progress
                    /\ rec.extractedText = old[1].extractedText
                    /\ old[1].status = "extracting" => rec.extractedText = None
    /\ request' = request
    /\ messages' = messages
    /\ hpc' \in {"extracting", "idle"}
    /\ IF hi < Len(validFiles)
       THEN hpc' = "extracting" /\ hi' = hi + 1 /\ validFiles' = validFiles
       ELSE hpc' = "idle"

ProgressEvents == {0, 50, 100}

\* A logger that stores what is left to do.
ReportedAsRemaining(record, progress) ==
    [record EXCEPT !.progress = Some(100 - progress)]

\* The record after the update of lines 681-683: info.progress as it comes.
Reported(record, progress) == [record EXCEPT !.progress = Some(progress)]

\* ocrOptions.logger, lines 680-684, called while extractText is pending.
OcrLogger(progress) ==
    /\ page = "ExtractionChatbot"
    /\ hpc = "extracting"
    /\ delivered # None => progress >= delivered[1]
    /\ delivered' = Some(progress)
    /\ uploadedFiles' =
          [n \in 1..Len(uploadedFiles) |->
              IF n = fileIndex THEN Reported(uploadedFiles[n], progress)
              ELSE uploadedFiles[n]]
    /\ toasts' = {}
    /\ selection' = <<>>
    /\ ChatStep
    /\ UNCHANGED << messages, uploadedFile, hpc, closure, validFiles,
                    startIndex, hi, fileIndex, extractedTextArg,
                    contentToAnalyze, request >>

\* The extraction pass with the logger's events.
InitProgress ==
    /\ page = "ExtractionChatbot"
    /\ Mounted

NextProgress ==
    \/ \E files \in Selections(Files) : Extraction_handleFilesSelected(files)
    \/ \E index \in 1..MaxFiles : Extraction_handleRemoveFile(index)
    \/ \E progress \in ProgressEvents : OcrLogger(progress)
    \/ \E text \in ExtractedTexts : ExtractResolves(text)
    \/ ExtractRejects

SpecProgress == InitProgress /\ [][NextProgress]_vars

C25_SetOnce ==
    [][ \A k \in 1..Len(uploadedFiles') :
           LET rec == uploadedFiles'[k]
               old == RecordOf(uploadedFiles, rec.file)
           IN  (old # None /\ Truthy(old[1].extractedText)) =>
                  rec.extractedText = old[1].extractedText
      ]_vars


\* ------------------------------------------------------------------ C26
\* A step of handleRemoveFile: the only step that shortens the list.
Removal ==
    /\ page = "DocumentAnalyzer"
    /\ Len(selectedFiles') < Len(selectedFiles)

\* C26: handleRemoveFile on one file changes nothing about the other files:
\* the record and status of every file that stays in the batch, and the
\* results map entry of every analyzed file that stays, are after the removal
\* what they were before it, also when a file that stays has the name of the
\* removed one.
C26_OthersUntouched ==
    [][ Removal =>
          \A k \in 1..Len(selectedFiles') :
             LET rec == selectedFiles'[k]
                 old == RecordOf(selectedFiles, rec.file)
                 name == rec.file.name
             IN  /\ old = Some(rec)
                 /\ (rec.status = "done" /\ name \in DOMAIN analysisResults) =>
                       /\ name \in DOMAIN analysisResults'
                       /\ analysisResults'[name] = analysisResults[name]
      ]_vars


\* ------------------------------------------- two files of one name and size
\* A second File object with the name and the size of the first: the same
\* document picked again, or a copy of it.
Twin == File(5, "a.pdf", PDF, 1024, <<37, 80>>)

TwinFiles == {File(1, "a.pdf", PDF, 1024, <<37, 80>>), Twin}

\* The two chatbots with their editor, over files that share name and size.
NextTwins ==
    \/ \E files \in Selections(TwinFiles) : Extraction_handleFilesSelected(files)
    \/ \E index \in 1..MaxFiles : Extraction_handleRemoveFile(index)
    \/ \E text \in ExtractedTexts : ExtractResolves(text)
    \/ ExtractRejects
    \/ \E index \in 1..MaxFiles, readerFails \in BOOLEAN :
          Extraction_handleEditFile(index, readerFails)
    \/ \E newText \in EditedTexts : Extraction_handleSaveEditedText(newText)
    \/ \E files \in Selections(TwinFiles) : Multi_handleFilesSelected(files)
    \/ \E index \in 1..MaxFiles : Multi_handleRemoveFile(index)
    \/ MultiReadResolves
    \/ MultiReadRejects
    \/ \E outcome \in CallOutcomes : MultiCallSettles(outcome)
    \/ \E index \in 1..MaxFiles, readerFails \in BOOLEAN :
          Multi_handleEditFile(index, readerFails)
    \/ \E newText \in EditedTexts : Multi_handleSaveEditedText(newText)
    \/ CloseEditor

SpecTwins == InitEdit /\ [][NextTwins]_vars

\* A step of handleSaveEditedText past its early return: the editor closes
\* with the toast "Document updated".
Saved ==
    /\ editingFile # None
    /\ editingFile' = None
    /\ toasts' = {<<"Document updated", "">>}

\* C27: handleSaveEditedText sets editedText on exactly the record of the file
\* being edited: that record's status and extractedText stay, and every record
\* of another File object stays as it was, also when that other file has the
\* name and the size of the edited one.
C27_OnlyTheEditedRecord ==
    [][ Saved =>
          /\ Len(uploadedFiles') = Len(uploadedFiles)
          /\ \A n \in 1..Len(uploadedFiles) :
                IF uploadedFiles[n].file = editingFile[1].file THEN
                    /\ uploadedFiles'[n].editedText # None
                    /\ uploadedFiles'[n] =
                          [uploadedFiles[n] EXCEPT
                              !.editedText = uploadedFiles'[n].editedText]
                ELSE uploadedFiles'[n] = uploadedFiles[n]
      ]_vars


\* ------------------------------------------------------- one run at a time
\* C28: at most one run of handleAnalyzeAll is active at any time.  isAnalyzing
\* is true exactly from the start of a run to its end, so it is false again
\* after every run, whatever failed in it; while it is true the run that is
\* active goes on over the files it started with (no new run begins) and no
\* file is added to the list; a run begins only while isAnalyzing is false.
C28_OneRunAtATime ==
    /\ [](page = "DocumentAnalyzer" => ((pc # "idle") = isAnalyzing))
    /\ [][ page = "DocumentAnalyzer" =>
             /\ isAnalyzing =>
                   /\ \A k \in 1..Len(selectedFiles') :
                         RecordOf(selectedFiles, selectedFiles'[k].file) # None
                   /\ Len(selectedFiles') <= Len(selectedFiles)
                   /\ isAnalyzing' => captured' = captured /\ i' \in {i, i + 1}
             /\ (pc = "idle" /\ pc' # "idle") =>
                   /\ ~isAnalyzing
                   /\ isAnalyzing'
                   /\ i' = 1
         ]_vars

\* A run is still active, at its second file, after its first file failed.
C28_Witness ==
    /\ page = "DocumentAnalyzer"
    /\ isAnalyzing
    /\ pc = "calling"
    /\ i = 2
    /\ Len(selectedFiles) = 2
    /\ selectedFiles[1].status = "error"


\* ========================================================= handleSendMessage
\* The three chatbots' message box: the Input sets inputValue, the Send button
\* and the Enter key call handleSendMessage.
MaxInput == 2
MaxExchanges == 1

\* Code units: tab, line feed and space; what is typed is made of spaces and
\* the letter h.
Whitespace == {9, 10, 32}
InputUnits == {32, 104}
InputValues == SeqsOver(InputUnits, MaxInput)

\* String.prototype.trim.
RECURSIVE trimStart(_)
trimStart(text) ==
    IF text # <<>> /\ Head(text) \in Whitespace THEN trimStart(Tail(text))
    ELSE text

RECURSIVE trimEnd(_)
trimEnd(text) ==
    IF text # <<>> /\ text[Len(text)] \in Whitespace
    THEN trimEnd(SubSeq(text, 1, Len(text) - 1))
    ELSE text

trim(text) == trimEnd(trimStart(text))

\* A message of the conversation: `text` is the part of the content that is
\* made of the user's input.
userMessage(inputValue) ==
    [type |-> "user", about |-> "", content |-> "inputValue",
     text |-> inputValue]

assistantMessage(content, text) ==
    [type |-> "assistant", about |-> "", content |-> content, text |-> text]

\* The texts the handlers hold ready.
NoAnswer == "No answer from Bedrock."
Unable == "I'm currently unable to answer your question. Please try again later."
Apology == "I apologize, but I encountered an issue processing your request. Please try again."
Difficulties == "I'm currently experiencing some technical difficulties."
PreviewGreeting == "Hello, ${inputValue}! I'm your MyLegal AI assistant."

\* The Input's onChange (lines 1024, 1442; Chatbot.tsx line 263); the Input is
\* disabled while isLoading.
SetInputValue(text) ==
    /\ page \in {"ExtractionChatbot", "MultiFileChatbot", "SingleFileChatbot"}
    /\ ~send.isLoading
    /\ text # send.inputValue
    /\ send' = [send EXCEPT !.inputValue = text]
    /\ toasts' = {}
    /\ selection' = <<>>
    /\ UNCHANGED << page, analyzerVars, chatVars, summary, extraction,
                    editingFile, second, invocation >>

\* What a step of handleSendMessage leaves alone.
SendStep ==
    /\ toasts' = {}
    /\ selection' = <<>>
    /\ UNCHANGED << page, analyzerVars, summary, extraction, editingFile,
                    second, invocation, uploadedFiles, uploadedFile, hpc, closure,
                    validFiles, startIndex, hi, fileIndex, delivered,
                    extractedTextArg, contentToAnalyze, request >>

\* handleSendMessage up to its first await, `call` the call it awaits: the
\* early return, or the user's message, the cleared input and isLoading.  The
\* Input and the Send button are disabled while isLoading.
SendMessage(call) ==
    /\ ~send.isLoading
    /\ SendStep
    /\ IF trim(send.inputValue) = <<>> THEN
           UNCHANGED << messages, send >>
       ELSE
           /\ Cardinality({n \in 1..Len(messages) : messages[n].type = "user"})
                 < MaxExchanges
           /\ messages' = Append(messages, userMessage(send.inputValue))
           /\ send' = [send EXCEPT !.inputValue = <<>>,
                                   !.isLoading = TRUE,
                                   !.pc = call,
                                   !.question = send.inputValue]

\* The end of a handleSendMessage without its finally block.
AnsweredStillLoading(message) ==
    /\ SendStep
    /\ messages' = Append(messages, message)
    /\ send' = [send EXCEPT !.pc = "idle", !.question = <<>>,
                            !.snippets = <<>>]

\* The end of handleSendMessage: the assistant's message, and the finally
\* block's setIsLoading(false).
Answered(message) ==
    /\ SendStep
    /\ messages' = Append(messages, message)
    /\ send' = [send EXCEPT !.isLoading = FALSE, !.pc = "idle",
                            !.question = <<>>, !.snippets = <<>>]

\* handleSendMessage, lines 578-623.
Extraction_handleSendMessage ==
    /\ page = "ExtractionChatbot"
    /\ SendMessage("queryKendra")

\* The snippets the retrieval service finds for a question.
Snippets(userQuestion) == << 115 >> \o userQuestion

\* queryKendra, lines 541-557: data.snippets || [], and [] when fetch or
\* res.json() throws.
queryKendra(outcome, userQuestion) ==
    CASE outcome = "data" -> Snippets(userQuestion)
      [] OTHER            -> <<>>

\* The answer the model gives to a question with its snippets.
BedrockAnswer(userQuestion, snippets) == << 97 >> \o userQuestion \o snippets

\* queryBedrock, lines 559-575: the answer's content || "No answer from
\* Bedrock.", and the fixed text of the catch block when fetch or res.json()
\* throws.
queryBedrock(outcome, userQuestion, snippets) ==
    CASE outcome = "data"   ->
            assistantMessage("answer", BedrockAnswer(userQuestion, snippets))
      [] outcome = "nodata" -> assistantMessage(NoAnswer, <<>>)
      [] OTHER              -> assistantMessage(Unable, <<>>)

\* await queryKendra(inputValue) settles, line 595.
KendraSettles(outcome) ==
    /\ page = "ExtractionChatbot"
    /\ send.pc = "queryKendra"
    /\ SendStep
    /\ send' = [send EXCEPT !.pc = "queryBedrock",
                            !.snippets = queryKendra(outcome, send.question)]
    /\ UNCHANGED messages

\* await queryBedrock(inputValue, snippets) settles, lines 598-609, and the
\* finally block.  queryKendra and queryBedrock catch what they throw, so the
\* handler's own catch block (lines 610-619) is never entered.
BedrockSettles(outcome) ==
    /\ page = "ExtractionChatbot"
    /\ send.pc = "queryBedrock"
    /\ Answered(queryBedrock(outcome, send.question, send.snippets))

\* client.queries.sayHello({ name }): what the call settles with, data a text
\* in the two parts of a message's content ("nodata" is also an empty text).
sayHello(outcome, name) ==
    CASE outcome = "data"   ->
            [throws |-> FALSE,
             data |-> Some([content |-> "answer", text |-> << 72 >> \o name])]
      [] outcome = "nodata" -> [throws |-> FALSE, data |-> None]
      [] OTHER              -> [throws |-> TRUE, data |-> None]

\* handleSendMessage, lines 1114-1160.
Multi_handleSendMessage ==
    /\ page = "MultiFileChatbot"
    /\ SendMessage("sayHello")

\* The message of the try block: result.data || the apology.
MessageOf(data) ==
    IF data = None THEN assistantMessage(Apology, <<>>)
    ELSE assistantMessage(data[1].content, data[1].text)

\* The fallback value handed to safeApiCall: `Hello, ${inputValue}! ...`.
FallbackGreeting(inputValue) ==
    [content |-> PreviewGreeting, text |-> inputValue]

\* await safeApiCall(...) settles, lines 1130-1146, and the finally block.
Multi_sayHelloSettles(outcome) ==
    /\ page = "MultiFileChatbot"
    /\ send.pc = "sayHello"
    /\ LET result == safeApiCall(sayHello(outcome, send.question),
                                 FallbackGreeting(send.question))
       IN  Answered(MessageOf(result.data))

\* handleSendMessage, Chatbot.tsx lines 48-87.
Single_handleSendMessage ==
    /\ page = "SingleFileChatbot"
    /\ SendMessage("sayHello")

\* await client.queries.sayHello(...) settles, Chatbot.tsx lines 63-83, and
\* the finally block.
Single_sayHelloSettles(outcome) ==
    /\ page = "SingleFileChatbot"
    /\ send.pc = "sayHello"
    /\ LET response == sayHello(outcome, send.question)
       IN  IF response.throws
           THEN Answered(assistantMessage(Difficulties, <<>>))
           ELSE Answered(MessageOf(response.data))

InitSend ==
    /\ page \in {"ExtractionChatbot", "MultiFileChatbot", "SingleFileChatbot"}
    /\ Mounted

NextSend ==
    \/ \E text \in InputValues : SetInputValue(text)
    \/ Extraction_handleSendMessage
    \/ \E outcome \in CallOutcomes : KendraSettles(outcome)
    \/ \E outcome \in CallOutcomes : BedrockSettles(outcome)
    \/ Multi_handleSendMessage
    \/ \E outcome \in CallOutcomes : Multi_sayHelloSettles(outcome)
    \/ Single_handleSendMessage
    \/ \E outcome \in CallOutcomes : Single_sayHelloSettles(outcome)

SpecSend == InitSend /\ [][NextSend]_vars


\* The fixed texts a chatbot answers with when it has no answer.
FixedApologies == {NoAnswer, Unable, Apology, Difficulties}

\* A step of the message box with the assistant's message one of `contents`:
\* nothing is appended and isLoading stays false while the input is empty or
\* whitespace; a run of handleSendMessage begins by appending the user's
\* message, with the input as it was typed, and setting isLoading; nothing is
\* appended while isLoading stays true; and isLoading falls in the step that
\* appends one assistant message.
SendsAndAnswers(contents) ==
    /\ (~send.isLoading /\ trim(send.inputValue) = <<>>) =>
          messages' = messages /\ ~send'.isLoading
    /\ (~send.isLoading /\ ~send'.isLoading) => messages' = messages
    /\ (~send.isLoading /\ send'.isLoading) =>
          /\ messages' = Append(messages, userMessage(send.inputValue))
          /\ send'.inputValue = <<>>
    /\ (send.isLoading /\ send'.isLoading) => messages' = messages
    /\ (send.isLoading /\ ~send'.isLoading) =>
          /\ Len(messages') = Len(messages) + 1
          /\ SubSeq(messages', 1, Len(messages)) = messages
          /\ messages'[Len(messages')].type = "assistant"
          /\ messages'[Len(messages')].content \in contents

\* C29 as stated: handleSendMessage changes nothing on an empty or
\* whitespace-only input; on every other input it appends the user's message
\* and then exactly one assistant message, the answer or a fixed apology text,
\* with isLoading true in between and false once that message is appended.
C29_AnswerOrApology ==
    [][SendsAndAnswers({"answer"} \cup FixedApologies)]_vars

\* C29 amended: as above, the assistant message being the answer, a fixed
\* apology text, or, in the multi-file chatbot when the call to the answer
\* service fails, the preview greeting made of the user's input.
C29_AnswerApologyOrGreeting ==
    [][ /\ SendsAndAnswers({"answer", PreviewGreeting} \cup FixedApologies)
        /\ (send.isLoading /\ ~send'.isLoading
              /\ messages'[Len(messages')].content = PreviewGreeting) =>
              /\ page = "MultiFileChatbot"
              /\ messages'[Len(messages')].text = send.question
      ]_vars

\* The multi-file chatbot has answered a message with the preview greeting.
C29_Witness ==
    /\ page = "MultiFileChatbot"
    /\ ~send.isLoading
    /\ Len(messages) = 3
    /\ messages[2] = userMessage(<< 104, 32 >>)
    /\ messages[3] = assistantMessage(PreviewGreeting, << 104, 32 >>)


\* ============================================================ the Lambdas
\* The three handlers behind the chat: queryKendra (part_001) and the two
\* Bedrock handlers (part_002).  An event is null (None) or an object whose
\* fields userQuestion, snippets and body may be missing (None).  A
\* userQuestion is a text, the empty one falsy.  The snippets are an array,
\* the empty one truthy, or a value that is no array.  A body is an object
\* with the same two fields, or a JSON text, which has neither property.
Array(items) == [isArray |-> TRUE, items |-> items]
NotAnArray == [isArray |-> FALSE, items |-> <<>>]

Object(userQuestion, snippets) ==
    [isText |-> FALSE, userQuestion |-> userQuestion, snippets |-> snippets]
JsonText == [isText |-> TRUE, userQuestion |-> None, snippets |-> None]

Bodies ==
    {None, Some(JsonText)}
    \cup {Some(Object(q, s)) :
             q \in {None, Some(<< 104, 105 >>)},
             s \in {None, Some(Array(<< << 116 >> >>))}}

Events ==
    {None}
    \cup {Some(e) :
             e \in [userQuestion : {None, Some(<<>>), Some(<< 104 >>)},
                    snippets : {None, Some(NotAnArray), Some(Array(<<>>)),
                                Some(Array(<< << 115 >>, << 116 >> >>))},
                    body : Bodies]}

\* What an awaited service call settles with: a result, a result without its
\* optional part (no ResultItems; a body that is no JSON), or a rejection.
ServiceOutcomes == {"full", "bare", "rejects"}

\* event.body?.field
BodyField(event, field) ==
    IF event.body = None THEN None ELSE event.body[1][field]

\* event.userQuestion || event.body?.userQuestion
QuestionOf(event) ==
    IF Truthy(event.userQuestion) THEN event.userQuestion
    ELSE IF Truthy(BodyField(event, "userQuestion"))
    THEN BodyField(event, "userQuestion")
    ELSE None

\* event.snippets || event.body?.snippets || []
SnippetsOf(event) ==
    IF event.snippets # None THEN event.snippets[1]
    ELSE IF BodyField(event, "snippets") # None
    THEN BodyField(event, "snippets")[1]
    ELSE Array(<<>>)

\* What a try block comes to: a value returned, or an error thrown.
Returned(value) == [threw |-> FALSE, value |-> Some(value), message |-> ""]
Thrown(message) == [threw |-> TRUE, value |-> None, message |-> message]

\* A response; body is the object JSON.stringify is applied to.
Response(statusCode, body) == [statusCode |-> statusCode, body |-> body]

\* The ResultItems of a Kendra response: an item with an excerpt and one
\* without.
ResultItems(question) == << Some(<< 101 >> \o question), None >>

\* The loop over response.ResultItems, part_001 lines 51-58.
RECURSIVE Excerpts(_)
Excerpts(items) ==
    IF items = <<>> THEN <<>>
    ELSE (IF Head(items) # None THEN << Head(items)[1] >> ELSE <<>>)
         \o Excerpts(Tail(items))

\* The try block of queryKendra's handler up to its await, part_001 lines
\* 37-38: None when it goes on to kendra.send.
KendraBegins(event) ==
    IF event = None THEN Some(Thrown("Cannot read properties of null"))
    ELSE IF QuestionOf(event[1]) = None
    THEN Some(Thrown("No userQuestion provided"))
    ELSE None

\* The rest of the try block, part_001 lines 47-67.
KendraGoesOn(event, outcome) ==
    LET question == QuestionOf(event[1])[1]
    IN  CASE outcome = "full" ->
                Returned(Response(200,
                    [question |-> question,
                     snippets |-> Excerpts(ResultItems(question)),
                     rawResponse |-> Some(ResultItems(question))]))
          [] outcome = "bare" ->
                Returned(Response(200,
                    [question |-> question, snippets |-> <<>>,
                     rawResponse |-> None]))
          [] OTHER -> Thrown("kendra.send rejected")

\* The catch block's body, part_001 line 72.
KendraError(tried) == [error |-> tried.message]

\* The catch block's body, part_002 lines 74 and 151.
BedrockError(tried) ==
    [error |-> "Failed to invoke Bedrock model", details |-> tried.message]

\* A handler without its catch block: what the try block throws leaves it.
Uncaught(tried, body) ==
    [threw |-> tried.threw, response |-> tried.value]

\* try { ... } catch (err) { return { statusCode: 500, body: ... } }
Caught(tried, body) ==
    [threw |-> FALSE,
     response |-> IF tried.threw THEN Some(Response(500, body))
                  ELSE tried.value]

Hello == << 72, 101, 108, 108, 111 >>

\* snippets.join("\n\n")
RECURSIVE join(_)
join(snippets) ==
    IF snippets = <<>> THEN <<>>
    ELSE IF Len(snippets) = 1 THEN Head(snippets)
    ELSE Head(snippets) \o << 10, 10 >> \o join(Tail(snippets))

\* The try block of a Bedrock handler up to its await, part_002 lines 13-17
\* and 95-99: None when it goes on to bedrock.send.
BedrockBegins(event) ==
    IF event = None THEN Some(Thrown("Cannot read properties of null"))
    ELSE IF ~SnippetsOf(event[1]).isArray
    THEN Some(Thrown("snippets.join is not a function"))
    ELSE None

\* The messages handed to the model, part_002 lines 51-56 and 128-133; the
\* system prompt of the handler with Kendra context ends with the question.
Messages(event, withQuestion) ==
    LET asked == QuestionOf(event[1])
        userQuestion == IF asked = None THEN Hello ELSE asked[1]
        contextText == join(SnippetsOf(event[1]).items)
    IN  [system |-> IF withQuestion THEN contextText \o << 10 >> \o userQuestion
                    ELSE contextText,
         user |-> userQuestion]

\* The rest of the try block, part_002 lines 60-69 and 137-146: the parsed
\* body becomes the answer; a body that is no JSON makes JSON.parse throw.
BedrockGoesOn(event, withQuestion, outcome) ==
    CASE outcome = "full" ->
            Returned(Response(200,
                [answer |-> [choices |-> Messages(event, withQuestion)]]))
      [] outcome = "bare" -> Thrown("Unexpected token in JSON")
      [] OTHER -> Thrown("bedrock.send rejected")

Handlers == {"queryKendra", "bedrockWithContext", "bedrock"}

\* What a step of a Lambda leaves alone.
LambdaStep ==
    UNCHANGED << page, selection, analyzerVars, chatVars, toasts, summary,
                 extraction, editingFile, second, send >>

\* The invocation of a handler, to its await (no result yet) or to its return.
Invoke(handler, event, result) ==
    /\ invocation = None
    /\ LambdaStep
    /\ invocation' =
          Some([handler |-> handler, event |-> event, outcome |-> "none",
                result |-> result])

\* exports.handler, part_001 lines 35-74.
queryKendraHandler(event) ==
    LET begun == KendraBegins(event)
    IN  Invoke("queryKendra", event,
               IF begun = None THEN None
               ELSE Some(Caught(begun[1], KendraError(begun[1]))))

\* The try and catch of the Bedrock handlers up to the await.
BedrockInvoked(event) ==
    LET begun == BedrockBegins(event)
    IN  IF begun = None THEN None
        ELSE Some(Caught(begun[1], BedrockError(begun[1])))

\* exports.handler, part_002 lines 10-77.
bedrockWithContextHandler(event) ==
    Invoke("bedrockWithContext", event, BedrockInvoked(event))

\* exports.handler, part_002 lines 92-154.
bedrockHandler(event) ==
    Invoke("bedrock", event, BedrockInvoked(event))

\* The awaited call of the handler settles and the handler returns.
Settles(outcome, tried, body) ==
    /\ invocation # None
    /\ invocation[1].result = None
    /\ LambdaStep
    /\ invocation' = Some([invocation[1] EXCEPT
                              !.outcome = outcome,
                              !.result = Some(Caught(tried, body))])

\* await kendra.send(command), part_001 line 48.
KendraSendSettles(outcome) ==
    /\ invocation # None
    /\ invocation[1].handler = "queryKendra"
    /\ invocation[1].result = None
    /\ LET tried == KendraGoesOn(invocation[1].event, outcome)
       IN  Settles(outcome, tried, KendraError(tried))

\* await bedrock.send(command), part_002 lines 60 and 137.
BedrockSendSettles(outcome) ==
    /\ invocation # None
    /\ invocation[1].handler \in {"bedrockWithContext", "bedrock"}
    /\ invocation[1].result = None
    /\ LET tried == BedrockGoesOn(invocation[1].event,
                                  invocation[1].handler = "bedrockWithContext",
                                  outcome)
       IN  Settles(outcome, tried, BedrockError(tried))

\* No handler has been invoked; the client is left as it was mounted.
InitLambda ==
    /\ page = "DocumentAnalyzer"
    /\ Mounted

NextLambda ==
    \/ \E event \in Events : queryKendraHandler(event)
    \/ \E event \in Events : bedrockWithContextHandler(event)
    \/ \E event \in Events : bedrockHandler(event)
    \/ \E outcome \in ServiceOutcomes : KendraSendSettles(outcome)
    \/ \E outcome \in ServiceOutcomes : BedrockSendSettles(outcome)

SpecLambda == InitLambda /\ [][NextLambda]_vars


\* The event carries a userQuestion, as a field of its own or of its body.
CarriesQuestion(event) ==
    /\ event # None
    /\ \/ event[1].userQuestion \notin {None, Some(<<>>)}
       \/ /\ event[1].body # None
          /\ event[1].body[1].userQuestion \notin {None, Some(<<>>)}

\* The question the event carries, its own before its body's.
CarriedQuestion(event) ==
    IF event[1].userQuestion \notin {None, Some(<<>>)}
    THEN event[1].userQuestion[1]
    ELSE event[1].body[1].userQuestion[1]

\* The event carries snippets, as a field of its own or of its body.
CarriesSnippets(event) ==
    /\ event # None
    /\ \/ event[1].snippets # None
       \/ event[1].body # None /\ event[1].body[1].snippets # None

\* The handler's awaited call went well: for Kendra a response with or
\* without ResultItems, for Bedrock a response whose body is JSON.
Succeeded(run) ==
    IF run.handler = "queryKendra" THEN run.outcome \in {"full", "bare"}
    ELSE run.outcome = "full"

\* C30: a handler that has ended has returned a response and thrown nothing:
\* statusCode 200 with the result when its call went well, statusCode 500 with
\* an error body on any failure.  The Kendra handler answers 500 when the event
\* carries no userQuestion; a Bedrock handler that answers 200 has put the
\* question "Hello" for a missing userQuestion and no snippets for missing
\* ones.
C30_AlwaysAResponse ==
    (invocation # None /\ invocation[1].result # None) =>
       LET run == invocation[1]
           result == run.result[1]
           response == result.response[1]
       IN  /\ ~result.threw
           /\ result.response # None
           /\ response.statusCode \in {200, 500}
           /\ (response.statusCode = 200) = Succeeded(run)
           /\ response.statusCode = 500 => "error" \in DOMAIN response.body
           /\ (run.handler = "queryKendra" /\ response.statusCode = 200) =>
                 /\ CarriesQuestion(run.event)
                 /\ response.body.question = CarriedQuestion(run.event)
                 /\ "snippets" \in DOMAIN response.body
           /\ (run.handler = "queryKendra" /\ ~CarriesQuestion(run.event)) =>
                 /\ response.statusCode = 500
                 /\ run.outcome = "none"
           /\ (run.handler # "queryKendra" /\ response.statusCode = 200) =>
                 /\ response.body.answer.choices.user =
                       (IF CarriesQuestion(run.event)
                        THEN CarriedQuestion(run.event) ELSE Hello)
                 /\ ~CarriesSnippets(run.event) =>
                       response.body.answer.choices.system =
                          (IF run.handler = "bedrock" THEN <<>>
                           ELSE << 10 >> \o response.body.answer.choices.user)

\* A Bedrock handler has answered 200 to an event without userQuestion and
\* without snippets.
C30_Witness ==
    /\ invocation # None
    /\ invocation[1].handler = "bedrock"
    /\ invocation[1].event =
          Some([userQuestion |-> None, snippets |-> None, body |-> None])
    /\ invocation[1].result # None
    /\ invocation[1].result[1].response =
          Some(Response(200,
                 [answer |-> [choices |-> [system |-> <<>>, user |-> Hello]]]))

====
